---- MODULE Spec2Model ----
(***************************************************************************)
(* A model of the local persistence core of infinite-napkin:               *)
(*   - the Storage Engine Host      (src/src/lib/sqlite.worker.ts)         *)
(*   - the Storage Client Bridge    (lib/sqlite.ts, src/unnamed/part_009)  *)
(*   - database import/export       (lib/db-io.ts, src/unnamed/part_007)   *)
(*   - the dashboard's document operations (src/src/hooks/useDocument.ts)  *)
(***************************************************************************)
EXTENDS Integers, Sequences, FiniteSets, TLC

\* ------------------------------------------------------------------ bounds
\* Requests a protocol client sends to one Host (HostSpec).
MaxReq == 3
\* Largest row id / value used in the sample databases.
MaxSeed == 2
\* Calls of the Bridge's exported functions (Spec).
MaxCalls == 3

VARIABLES
    \* Host: module-level state of sqlite.worker.ts, and the files it owns
    sqlite3,        \* the sqlite3 module is loaded (sqlite3 !== null)
    db,             \* the handle: "null", "opfs" or "memory"
    durable,        \* content of the OPFS file /vocab-article.db
    mem,            \* content of the in-memory database behind a "memory" handle
    inflight,       \* message handlers suspended at an await
    \* the two message queues between the contexts
    inbox,          \* main -> worker
    outbox,         \* worker -> main
    \* history of the Host
    received,       \* requests whose handler has started, in order
    hostLog,        \* responses posted, in order
    closedNoInit,   \* a close was handled and no init has been handled since
    closedNoOpen,   \* a close was handled and no init or import has been handled since
    \* Bridge: module-level state of lib/sqlite.ts
    worker,         \* 0 (null), or the number of the live worker
    messageId,      \* the request id counter
    initPromise,    \* 0 (null), or the call whose promise it is
    pendingRequests,\* Map id -> the call that waits for the response
    closing,        \* closeDatabase() has posted `close` and not yet terminated
    \* history of the Bridge
    calls,          \* every call that made a promise, with the promise's state
    initCallers,    \* every initSqlite() call: its epoch and the promise returned
    issued,         \* the ids getNextId() returned, in order
    epoch,          \* closeDatabase() calls so far
    workerEpochs,   \* for each worker created, the epoch of its creation
    delivered,      \* the responses handleWorkerMessage has seen, in order
    \* uploadDatabase(file) of lib/db-io.ts
    upPc,           \* "idle", "read", "importing", "validating", "done"
    upFile,         \* the bytes of the file
    upResult,       \* "none", or the boolean returned: "true" / "false"
    upImport,       \* the importDatabase call awaited (0: none)
    upQuery,        \* the querySql call awaited (0: none)
    \* history of the upload
    upSource,       \* the database whose export the user holds
    upPre,          \* the database the Host served when the import was requested
    upFresh,        \* the instance held no rows when the import was requested
    \* the data layer: hooks/useDocument.ts over the database
    dbTables,       \* the rows of each table of the database
    sqliteSequence, \* the AUTOINCREMENT sequence of each table (sqlite_sequence)
    sqlQueue,       \* statements posted to the Host and not yet executed, in order
    sqlReplies,     \* responses of the Host not yet handled by the main thread
    docs,           \* useDocuments state `docs`: the ids of the documents listed
    ops,            \* every call of a useDocuments function, with its position
    throws,         \* statements that have thrown so far
    \* the editor of one document
    docText,        \* the text of the document: for each place, the token there
    selection,      \* the place selected in the editor (0: the selection is empty)
    edMarks,        \* the vocab mark of each place in the editor (0: none)
    content,        \* useDocument state `content`: the marks of the content last set
    \* useDictionaryLookup and the remote dictionary
    cache,          \* the session cache: Map wordId -> WordData
    fetching,       \* remote fetches in flight
    fetchLog,       \* every remote fetch started, in order
    \* the tooltip of the vocabulary words (VocabTooltip, ArticleEditor)
    hoveredWordId,  \* state `hoveredWordId` (0: null)
    tooltipData     \* state `wordData` / `hoveredWordData` (<<>>: null)

hostVars == <<sqlite3, db, durable, mem, inflight, inbox, outbox,
              received, hostLog, closedNoInit, closedNoOpen>>

bridgeVars == <<worker, messageId, initPromise, pendingRequests, closing,
                calls, initCallers, issued, epoch, workerEpochs, delivered>>

uploadVars == <<upPc, upFile, upResult, upImport, upQuery, upSource, upPre, upFresh>>

dataVars == <<dbTables, sqliteSequence, sqlQueue, sqlReplies, docs, ops, throws>>

editorVars == <<docText, selection, edMarks, content>>

tooltipVars == <<hoveredWordId, tooltipData>>

lookupVars == <<cache, fetching, fetchLog, tooltipVars>>

\* The state of the components on the main thread.
appVars == <<editorVars, lookupVars>>

\* Everything the message handlers of the worker leave alone.
notHost == <<bridgeVars, uploadVars, dataVars, appVars>>

vars == <<hostVars, bridgeVars, uploadVars, dataVars, appVars>>

\* ------------------------------------------------------------ the database
\* The tables of the schema the data layer uses, in the order the migrations
\* create them (the order of sqlite_master).
TableOrder == <<"documents", "word_overrides", "words", "document_stats">>

TableNames == {TableOrder[i] : i \in 1..Len(TableOrder)}

Columns == {"id", "val"}

\* A database: ok = FALSE is an image that is not a database (every statement on
\* it throws); tabs maps each table that exists to its set of rows; a row maps
\* column names to values, "id" being the primary key.
NoTabs == [t \in {} |-> {}]

NewDb == [ok |-> TRUE, tabs |-> NoTabs]

MkRow(i, v) == [c \in Columns |-> IF c = "id" THEN i ELSE v]

NoRow == MkRow(0, 0)

\* sqlite3_js_db_export / sqlite3_deserialize: the byte image of a database.
Serialize(c) == [valid |-> c.ok, image |-> c.tabs]

Deserialize(b) == [ok |-> b.valid, tabs |-> b.image]

Garbage == [valid |-> FALSE, image |-> NoTabs]

\* Statements, as the engine sees them.
NoSql == [op |-> "none", t |-> "", row |-> NoRow]

SqlCreate(t) == [op |-> "create", t |-> t, row |-> NoRow]

SqlInsert(t, r) == [op |-> "insert", t |-> t, row |-> r]

SqlDelete(t, i) == [op |-> "delete", t |-> t, row |-> MkRow(i, 0)]

SqlSelect(t) == [op |-> "select", t |-> t, row |-> NoRow]

\* SELECT name FROM sqlite_master WHERE type='table' AND name=t
SqlMaster(t) == [op |-> "master", t |-> t, row |-> NoRow]

SqlResult(ok, err, c, rows) == [ok |-> ok, err |-> err, c |-> c, rows |-> rows]

\* db.exec({sql, bind}): the engine's effect and result rows, or the error thrown.
DbExec(c, s) ==
    IF ~c.ok THEN SqlResult(FALSE, "file is not a database", c, {})
    ELSE IF s.op = "create" THEN
        IF s.t \in DOMAIN c.tabs
        THEN SqlResult(FALSE, "table already exists", c, {})
        ELSE SqlResult(TRUE, "",
                       [c EXCEPT !.tabs = [x \in DOMAIN c.tabs \cup {s.t} |->
                                              IF x = s.t THEN {} ELSE c.tabs[x]]], {})
    ELSE IF s.op = "master" THEN
        SqlResult(TRUE, "", c, IF s.t \in DOMAIN c.tabs THEN {MkRow(1, 0)} ELSE {})
    ELSE IF s.t \notin DOMAIN c.tabs THEN SqlResult(FALSE, "no such table", c, {})
    ELSE IF s.op = "insert" THEN
        IF \E r \in c.tabs[s.t] : r["id"] = s.row["id"]
        THEN SqlResult(FALSE, "UNIQUE constraint failed", c, {})
        ELSE SqlResult(TRUE, "", [c EXCEPT !.tabs[s.t] = @ \cup {s.row}], {})
    ELSE IF s.op = "delete" THEN
        SqlResult(TRUE, "",
                  [c EXCEPT !.tabs[s.t] = {r \in @ : r["id"] # s.row["id"]}], {})
    ELSE IF s.op = "select" THEN SqlResult(TRUE, "", c, c.tabs[s.t])
    ELSE SqlResult(FALSE, "syntax error", c, {})

\* ------------------------------------------------------------ the protocol
ReqTypes == {"init", "exec", "query", "export", "import", "close"}

Request(type, id, n, sql, data) ==
    [type |-> type, id |-> id, n |-> n, sql |-> sql, data |-> data]

Response(m, ok, err, vfs, rows, data) ==
    [type |-> m.type, id |-> m.id, n |-> m.n, success |-> ok, error |-> err,
     vfs |-> vfs, results |-> rows, data |-> data]

NotInitialized == "Database not initialized"

\* ------------------------------------------------------------------- Host
\* The database the handle serves.
Content == IF db = "opfs" THEN durable ELSE mem

\* self.postMessage(response), and its record in the Host's history.
\* m is the request (or suspended handler) answered: afterClose says that it was
\* received after a close with no init handled between then and now.
Post(m, r) ==
    /\ outbox' = Append(outbox, r)
    /\ hostLog' = Append(hostLog,
                         [id |-> r.id, n |-> r.n, type |-> r.type, success |-> r.success,
                          error |-> r.error,
                          afterClose |-> m.ac /\ closedNoInit,
                          afterCloseNoOpen |-> m.aco /\ closedNoOpen,
                          dbOpen |-> db' # "null"])

\* The message event is dispatched: the handler of the head of the queue starts.
Arrived(type) == inbox # <<>> /\ Head(inbox).type = type

Take(m) ==
    /\ inbox' = Tail(inbox)
    /\ received' = Append(received, m)

\* A handler suspended at an await: its request, where it waits, and whether the
\* request arrived after a close.
Task(m, stage) ==
    [type |-> m.type, id |-> m.id, n |-> m.n, stage |-> stage, data |-> m.data,
     ac |-> closedNoInit, aco |-> closedNoOpen]

AsRequest(k) == Request(k.type, k.id, k.n, NoSql, k.data)

\* A handler that runs to its end without suspending.
Now(m) == Task(m, "sync")

\* case 'init': initDatabase() returns at once when a handle is open, and
\* otherwise suspends at `await sqlite3InitModule(...)`.
HostInit ==
    /\ Arrived("init")
    /\ UNCHANGED notHost
    /\ LET m == Head(inbox) IN
        /\ Take(m)
        /\ IF db # "null"
           THEN /\ UNCHANGED <<sqlite3, db, durable, mem, inflight>>
                /\ closedNoInit' = FALSE
                /\ closedNoOpen' = FALSE
                /\ Post(Now(m), Response(m, TRUE, "", "already-initialized", {}, Garbage))
           ELSE /\ inflight' = inflight \cup {Task(m, "module")}
                /\ UNCHANGED <<sqlite3, db, durable, mem, outbox, hostLog,
                               closedNoInit, closedNoOpen>>

\* sqlite3InitModule settles. Rejected: the handler's catch posts the failure.
\* Fulfilled: sqlite3 is set and the handler suspends at
\* `await sqlite3.installOpfsSAHPoolVfs(...)`.
HostInitModuleDone ==
    \E k \in inflight, ok \in BOOLEAN :
        /\ k.type = "init" /\ k.stage = "module"
        /\ UNCHANGED notHost
        /\ UNCHANGED <<db, durable, mem, inbox, received>>
        /\ IF ok
           THEN /\ sqlite3' = TRUE
                /\ inflight' = (inflight \ {k}) \cup {[k EXCEPT !.stage = "vfs"]}
                /\ UNCHANGED <<outbox, hostLog, closedNoInit, closedNoOpen>>
           ELSE /\ inflight' = inflight \ {k}
                /\ closedNoInit' = FALSE
                /\ closedNoOpen' = FALSE
                /\ UNCHANGED sqlite3
                /\ Post(k, Response(AsRequest(k), FALSE, "sqlite3 module failed to load",
                                 "", {}, Garbage))

\* installOpfsSAHPoolVfs settles: the OPFS handle, or the in-memory fallback of
\* the catch block; initDatabase returns the vfs and the success is posted.
HostInitVfsDone ==
    \E k \in inflight, opfsOk \in BOOLEAN :
        /\ k.type = "init" /\ k.stage = "vfs"
        /\ UNCHANGED notHost
        /\ inflight' = inflight \ {k}
        /\ db' = IF opfsOk THEN "opfs" ELSE "memory"
        /\ mem' = NewDb
        /\ closedNoInit' = FALSE
        /\ closedNoOpen' = FALSE
        /\ UNCHANGED <<sqlite3, durable, inbox, received>>
        /\ Post(k, Response(AsRequest(k), TRUE, "", db', {}, Garbage))

\* Store the content c behind the open handle.
SetContent(c) ==
    IF db = "opfs" THEN durable' = c /\ mem' = mem ELSE mem' = c /\ durable' = durable

\* (mutant of HostExec: the handler without its try/catch)
HostExecNoCatch ==
    /\ Arrived("exec")
    /\ UNCHANGED notHost
    /\ LET m == Head(inbox)
           r == DbExec(Content, m.sql) IN
        /\ Take(m)
        /\ UNCHANGED <<sqlite3, db, inflight, closedNoInit, closedNoOpen>>
        /\ IF db = "null" \/ ~r.ok
           THEN UNCHANGED <<durable, mem, outbox, hostLog>>
           ELSE /\ SetContent(r.c)
                /\ Post(Now(m), Response(m, TRUE, "", "", {}, Garbage))

\* case 'exec': execSql(sql, params)
HostExec ==
    /\ Arrived("exec")
    /\ UNCHANGED notHost
    /\ LET m == Head(inbox)
           r == DbExec(Content, m.sql) IN
        /\ Take(m)
        /\ UNCHANGED <<sqlite3, db, inflight, closedNoInit, closedNoOpen>>
        /\ IF db = "null"
           THEN /\ UNCHANGED <<durable, mem>>
                /\ Post(Now(m), Response(m, FALSE, NotInitialized, "", {}, Garbage))
           ELSE /\ SetContent(r.c)
                /\ Post(Now(m), Response(m, r.ok, r.err, "", {}, Garbage))

\* case 'query': querySql(sql, params)
HostQuery ==
    /\ Arrived("query")
    /\ UNCHANGED notHost
    /\ LET m == Head(inbox)
           r == DbExec(Content, m.sql) IN
        /\ Take(m)
        /\ UNCHANGED <<sqlite3, db, inflight, closedNoInit, closedNoOpen>>
        /\ IF db = "null"
           THEN /\ UNCHANGED <<durable, mem>>
                /\ Post(Now(m), Response(m, FALSE, NotInitialized, "", {}, Garbage))
           ELSE /\ SetContent(r.c)
                /\ Post(Now(m), Response(m, r.ok, r.err, "", r.rows, Garbage))

\* case 'export': exportDatabase()
HostExport ==
    /\ Arrived("export")
    /\ UNCHANGED notHost
    /\ LET m == Head(inbox) IN
        /\ Take(m)
        /\ UNCHANGED <<sqlite3, db, durable, mem, inflight, closedNoInit, closedNoOpen>>
        /\ IF db = "null" \/ ~sqlite3
           THEN Post(Now(m), Response(m, FALSE, NotInitialized, "", {}, Garbage))
           ELSE Post(Now(m), Response(m, TRUE, "", "", {}, Serialize(Content)))

\* (mutant of CloseHandle: the handle is not released)
CloseHandleKeepsHandle == UNCHANGED <<db, mem>>

\* closeDatabase()
CloseHandle ==
    /\ db' = "null"
    /\ mem' = NewDb

\* case 'close'
HostClose ==
    /\ Arrived("close")
    /\ UNCHANGED notHost
    /\ LET m == Head(inbox) IN
        /\ Take(m)
        /\ CloseHandle
        /\ closedNoInit' = TRUE
        /\ closedNoOpen' = TRUE
        /\ UNCHANGED <<sqlite3, durable, inflight>>
        /\ Post(Now(m), Response(m, TRUE, "", "", {}, Garbage))

\* The user tables of an image, in sqlite_master order (both SELECTs of
\* importDatabase read this list).
TablesOf(tabs) == SelectSeq(TableOrder, LAMBDA t : t \in DOMAIN tabs)

ImportResult(thrown, c) == [thrown |-> thrown, c |-> c]

\* `for (const [sqlStatement] of tables) db.exec({sql: sqlStatement})`: replay the
\* CREATE TABLE statements of the image; the first one that throws ends the loop
\* and leaves what the earlier ones did.
RECURSIVE ReplaySchema(_, _)
ReplaySchema(c, names) ==
    IF names = <<>> THEN ImportResult(FALSE, c)
    ELSE LET r == DbExec(c, SqlCreate(Head(names))) IN
         IF r.ok THEN ReplaySchema(r.c, Tail(names)) ELSE ImportResult(TRUE, c)

\* (mutant of CopyRows: the rows are not copied)
CopyRowsNone(c, t, rows) == ImportResult(FALSE, c)

\* `for (const row of rows) db.exec(INSERT INTO t (cols) VALUES (?...))`: every
\* column of the row read from the temporary database is bound by name.
RECURSIVE CopyRows(_, _, _)
CopyRows(c, t, rows) ==
    IF rows = {} THEN ImportResult(FALSE, c)
    ELSE LET row == CHOOSE r \in rows : TRUE
             cols == DOMAIN row
             r == DbExec(c, SqlInsert(t, [k \in cols |-> row[k]])) IN
         IF r.ok THEN CopyRows(r.c, t, rows \ {row}) ELSE ImportResult(TRUE, r.c)

\* `for (const [tableName] of tableNames)`: copy the rows of each table in turn.
RECURSIVE CopyTables(_, _, _)
CopyTables(c, image, names) ==
    IF names = <<>> THEN ImportResult(FALSE, c)
    ELSE LET r == CopyRows(c, Head(names), image[Head(names)]) IN
         IF r.thrown THEN r ELSE CopyTables(r.c, image, Tail(names))

\* The try block of importDatabase once the OPFS pool is installed: the durable
\* file is opened as it is, the buffer is deserialized into a temporary in-memory
\* database (rc # 0 throws, and so does the first read of a buffer that is not a
\* database), and schema and rows are copied into the durable file.
ImportDurable(file, data, rcOk) ==
    IF ~rcOk \/ ~data.valid THEN ImportResult(TRUE, file)
    ELSE LET temp == Deserialize(data)
             s == ReplaySchema(file, TablesOf(temp.tabs)) IN
         IF s.thrown THEN s ELSE CopyTables(s.c, temp.tabs, TablesOf(temp.tabs))

\* The catch block of importDatabase: a new in-memory database takes the buffer
\* as its image; rc # 0 throws with the new, empty handle already assigned.
ImportMemory(data, rcOk) ==
    IF rcOk THEN ImportResult(FALSE, Deserialize(data)) ELSE ImportResult(TRUE, NewDb)

\* case 'import': importDatabase(data) throws without the sqlite3 module; else it
\* closes the open handle and suspends at `await sqlite3.installOpfsSAHPoolVfs`.
HostImport ==
    /\ Arrived("import")
    /\ UNCHANGED notHost
    /\ LET m == Head(inbox) IN
        /\ Take(m)
        /\ UNCHANGED <<sqlite3, durable>>
        /\ IF ~sqlite3
           THEN /\ UNCHANGED <<db, mem, inflight>>
                /\ closedNoInit' = closedNoInit
                /\ closedNoOpen' = FALSE
                /\ Post(Now(m), Response(m, FALSE, "SQLite not initialized", "", {}, Garbage))
           ELSE /\ CloseHandle
                /\ inflight' = inflight \cup {Task(m, "vfs")}
                /\ UNCHANGED <<outbox, hostLog, closedNoInit, closedNoOpen>>

\* installOpfsSAHPoolVfs settles inside importDatabase. opfsOk: the pool is
\* there; rcOk: sqlite3_deserialize returns 0 (it always does for a database
\* image; for other bytes the library may accept them and fail on first read).
HostImportVfsDone ==
    \E k \in inflight, opfsOk \in BOOLEAN, rcOk \in BOOLEAN :
        /\ k.type = "import" /\ k.stage = "vfs"
        /\ UNCHANGED notHost
        /\ k.data.valid => rcOk
        /\ inflight' = inflight \ {k}
        /\ closedNoInit' = closedNoInit
        /\ closedNoOpen' = FALSE
        /\ UNCHANGED <<sqlite3, inbox, received>>
        /\ LET d == IF opfsOk THEN ImportDurable(durable, k.data, rcOk)
                    ELSE ImportResult(TRUE, durable)
               f == ImportMemory(k.data, rcOk) IN
            /\ durable' = d.c
            /\ IF ~d.thrown
               THEN /\ db' = "opfs"
                    /\ mem' = NewDb
                    /\ Post(k, Response(AsRequest(k), TRUE, "", "", {}, Garbage))
               ELSE /\ db' = "memory"
                    /\ mem' = f.c
                    /\ Post(k, Response(AsRequest(k), ~f.thrown,
                                     IF f.thrown THEN "Deserialize failed" ELSE "",
                                     "", {}, Garbage))

\* ------------------------------------------------- a client of the protocol
\* Sample databases: the tables in `schema`, each holding rows 1..seed.
SampleDb(schema, seed) ==
    [ok |-> TRUE, tabs |-> [t \in schema |-> {MkRow(i, seed) : i \in 1..seed}]]

Schemas == {{}, {"documents"}, TableNames, TableNames \ {"documents"}}

SampleDbs == {SampleDb(S, s) : S \in Schemas, s \in 0..MaxSeed}

\* What a protocol client may put in a request of each type.
SqlInputs(type) ==
    IF type = "exec" THEN {SqlInsert("documents", MkRow(1, 1))}
    ELSE IF type = "query" THEN {SqlSelect("documents")}
    ELSE {NoSql}

DataInputs(type) ==
    IF type = "import" THEN {Serialize(SampleDb({"documents"}, 1)), Garbage}
    ELSE {Garbage}

\* ----------------------------------------------------------------- Bridge
\* The promise returned by initSqlite() has resolved.
InitResolved == initPromise # 0 /\ calls[initPromise].state = "resolved"

\* A call and its promise. by: the request the settling response answered.
Call(kind, id, state, error) ==
    [kind |-> kind, id |-> id, state |-> state, error |-> error, epoch |-> epoch,
     initDone |-> InitResolved, by |-> 0, results |-> {}]

\* Calls of the Bridge's exported functions so far.
Invocations ==
    Len(initCallers) + Cardinality({n \in DOMAIN calls : calls[n].kind # "init"})
        + epoch + (IF closing THEN 1 ELSE 0)

\* (mutant of GetNextId: the counter is read and not advanced)
GetNextIdStuck == IF messageId = 0 THEN 1 ELSE messageId

\* getNextId(): ++messageId
GetNextId == messageId + 1

\* postMessage(message) on worker w, whose queue holds `queue`: rejects without a
\* worker; else takes an id, records the pending promise and posts the request.
PostMessage(w, queue, type, sql, data) ==
    LET n == Len(calls) + 1
        id == GetNextId IN
    IF w = 0
    THEN /\ calls' = Append(calls, Call(type, 0, "rejected", "Worker not initialized"))
         /\ inbox' = queue
         /\ UNCHANGED <<messageId, issued, pendingRequests>>
    ELSE /\ messageId' = id
         /\ issued' = Append(issued, id)
         /\ pendingRequests' = [i \in DOMAIN pendingRequests \cup {id} |->
                                   IF i = id THEN n ELSE pendingRequests[i]]
         /\ inbox' = Append(queue, Request(type, id, n, sql, data))
         /\ calls' = Append(calls, Call(type, id, "pending", ""))

\* (mutant of ReuseInitPromise: initSqlite without its guard)
NeverReuseInitPromise == FALSE

\* `if (initPromise) return initPromise;`
ReuseInitPromise == initPromise # 0

\* initSqlite(): the promise of the attempt under way, or a new worker, its
\* `init` request and the promise of that attempt.
InitSqlite ==
    /\ ~closing
    /\ Invocations < MaxCalls
    /\ IF ReuseInitPromise
       THEN /\ initCallers' = Append(initCallers, [epoch |-> epoch, promise |-> initPromise])
            /\ UNCHANGED <<worker, messageId, initPromise, pendingRequests, calls, issued,
                           workerEpochs>>
            /\ UNCHANGED <<sqlite3, db, mem, inflight, inbox>>
       ELSE /\ worker' = Len(workerEpochs) + 1
            /\ workerEpochs' = Append(workerEpochs, epoch)
            /\ sqlite3' = FALSE
            /\ db' = "null"
            /\ mem' = NewDb
            /\ inflight' = {}
            /\ initPromise' = Len(calls) + 1
            /\ initCallers' = Append(initCallers,
                                     [epoch |-> epoch, promise |-> Len(calls) + 1])
            /\ PostMessage(worker', <<>>, "init", NoSql, Garbage)
    /\ UNCHANGED <<closing, epoch, delivered>>
    /\ UNCHANGED <<durable, outbox, received, hostLog, closedNoInit, closedNoOpen>>
    /\ UNCHANGED <<uploadVars, dataVars, appVars>>

\* execSql, querySql, exportDatabase, importDatabase: throw without a worker,
\* else `await postMessage({type, ...})`.
ApiCallBody(type, sql, data) ==
    /\ ~closing
    /\ IF worker = 0
       THEN /\ calls' = Append(calls, Call(type, 0, "rejected",
                                           "Database not initialized. Call initSqlite() first."))
            /\ UNCHANGED <<messageId, issued, pendingRequests, inbox>>
       ELSE PostMessage(worker, inbox, type, sql, data)
    /\ UNCHANGED <<worker, initPromise, closing, initCallers, epoch, workerEpochs, delivered>>
    /\ UNCHANGED <<sqlite3, db, durable, mem, inflight, outbox, received, hostLog,
                   closedNoInit, closedNoOpen>>

\* A call made by some component of the application.
ApiCall(type, sql, data) ==
    /\ Invocations < MaxCalls
    /\ ApiCallBody(type, sql, data)
    /\ UNCHANGED <<uploadVars, dataVars, appVars>>

ExecSql == \E sql \in SqlInputs("exec") : ApiCall("exec", sql, Garbage)

QuerySql == \E sql \in SqlInputs("query") : ApiCall("query", sql, Garbage)

ExportDatabase == ApiCall("export", NoSql, Garbage)

ImportDatabase ==
    \E data \in {Serialize(SampleDb({"documents"}, 1))} : ApiCall("import", NoSql, data)

\* closeDatabase(), first statement: `worker.postMessage({type: 'close', id})`.
\* Without a worker the whole function is `initPromise = null`.
ClosePost ==
    /\ ~closing
    /\ Invocations < MaxCalls
    /\ IF worker # 0
       THEN /\ messageId' = GetNextId
            /\ issued' = Append(issued, GetNextId)
            /\ inbox' = Append(inbox, Request("close", GetNextId, 0, NoSql, Garbage))
            /\ closing' = TRUE
            /\ UNCHANGED <<initPromise, epoch>>
       ELSE /\ initPromise' = 0
            /\ epoch' = epoch + 1
            /\ UNCHANGED <<messageId, issued, inbox, closing>>
    /\ UNCHANGED <<worker, pendingRequests, calls, initCallers, workerEpochs, delivered>>
    /\ UNCHANGED <<sqlite3, db, durable, mem, inflight, outbox, received, hostLog,
                   closedNoInit, closedNoOpen>>
    /\ UNCHANGED <<uploadVars, dataVars, appVars>>

\* closeDatabase(), the rest: `worker.terminate(); worker = null; initPromise =
\* null`. The worker's context is gone with its queue and its suspended
\* handlers; of the responses it had posted, those already queued on the main
\* side (a prefix) are still delivered.
CloseTerminate ==
    /\ closing
    /\ closing' = FALSE
    /\ worker' = 0
    /\ initPromise' = 0
    /\ epoch' = epoch + 1
    /\ inbox' = <<>>
    /\ inflight' = {}
    /\ sqlite3' = FALSE
    /\ db' = "null"
    /\ mem' = NewDb
    /\ \E k \in 0..Len(outbox) : outbox' = SubSeq(outbox, 1, k)
    /\ UNCHANGED <<messageId, pendingRequests, calls, initCallers, issued, workerEpochs,
                   delivered>>
    /\ UNCHANGED <<durable, received, hostLog, closedNoInit, closedNoOpen>>
    /\ UNCHANGED <<uploadVars, dataVars, appVars>>

\* pendingRequests.delete(id)
MapDelete(map, id) == [i \in DOMAIN map \ {id} |-> map[i]]

\* The body of `if (pending)`: delete the entry, resolve with the payload or
\* reject with `error || 'Unknown worker error'`.
Settle(r) ==
    LET n == pendingRequests[r.id] IN
    /\ pendingRequests' = MapDelete(pendingRequests, r.id)
    /\ calls' = [calls EXCEPT ![n].state = IF r.success THEN "resolved" ELSE "rejected",
                              ![n].error = IF r.success THEN ""
                                           ELSE IF r.error = "" THEN "Unknown worker error"
                                           ELSE r.error,
                              ![n].by = r.n,
                              ![n].results = r.results]

\* handleWorkerMessage(event): worker.onmessage for the head of the queue.
HandleWorkerMessage ==
    /\ ~closing
    /\ outbox # <<>>
    /\ LET r == Head(outbox) IN
        /\ outbox' = Tail(outbox)
        /\ delivered' = Append(delivered, r)
        /\ IF r.id \in DOMAIN pendingRequests
           THEN Settle(r)
           ELSE UNCHANGED <<pendingRequests, calls>>
    /\ UNCHANGED <<worker, messageId, initPromise, closing, initCallers, issued, epoch,
                   workerEpochs>>
    /\ UNCHANGED <<sqlite3, db, durable, mem, inflight, inbox, received, hostLog,
                   closedNoInit, closedNoOpen>>
    /\ UNCHANGED <<uploadVars, dataVars, appVars>>

BridgeStep ==
    \/ InitSqlite
    \/ ExecSql
    \/ QuerySql
    \/ ExportDatabase
    \/ ImportDatabase
    \/ ClosePost
    \/ CloseTerminate
    \/ HandleWorkerMessage

\* ------------------------------------------------------------ import/export
\* No table of the database holds a row.
NoRows(c) == c.ok /\ \A t \in DOMAIN c.tabs : c.tabs[t] = {}

\* The rows of table t (none when the table does not exist).
RowsOf(c, t) == IF c.ok /\ t \in DOMAIN c.tabs THEN c.tabs[t] ELSE {}

\* uploadDatabase returns: `return true`, or `return false` from the catch.
UploadReturn(b) ==
    /\ upPc' = "done"
    /\ upResult' = IF b THEN "true" ELSE "false"

\* `const arrayBuffer = await file.arrayBuffer()`: the bytes, or a rejection.
UploadRead ==
    \E file \in {Serialize(upSource), Garbage}, readOk \in BOOLEAN :
        /\ upPc = "idle"
        /\ upFile' = file
        /\ IF readOk THEN upPc' = "read" /\ UNCHANGED upResult ELSE UploadReturn(FALSE)
        /\ UNCHANGED <<upImport, upQuery, upSource, upPre, upFresh>>
        /\ UNCHANGED <<hostVars, bridgeVars, dataVars, appVars>>

\* `await importDatabase(data)`: the call is made.
UploadImport ==
    /\ upPc = "read"
    /\ upImport' = Len(calls) + 1
    /\ upPre' = Content
    /\ upFresh' = (db # "null" /\ NoRows(Content) /\ NoRows(durable))
    /\ upPc' = "importing"
    /\ ApiCallBody("import", NoSql, upFile)
    /\ UNCHANGED <<upFile, upResult, upQuery, upSource>>
    /\ UNCHANGED <<dataVars, appVars>>

\* importDatabase has settled: a rejection is caught; else the validation query
\* `SELECT name FROM sqlite_master WHERE type='table' AND name='documents'` is
\* sent.
UploadAfterImport ==
    /\ upPc = "importing"
    /\ calls[upImport].state # "pending"
    /\ IF calls[upImport].state = "rejected"
       THEN /\ UploadReturn(FALSE)
            /\ UNCHANGED <<upQuery, hostVars, bridgeVars>>
       ELSE /\ upQuery' = Len(calls) + 1
            /\ upPc' = "validating"
            /\ ApiCallBody("query", SqlMaster("documents"), Garbage)
            /\ UNCHANGED upResult
    /\ UNCHANGED <<upFile, upImport, upSource, upPre, upFresh>>
    /\ UNCHANGED <<dataVars, appVars>>

\* (mutant of UploadValidate: the result of the validation query is not looked at)
UploadValidateAnything(tables) == TRUE

\* `if (tables.length === 0) throw ...`: whether the validation passes.
UploadValidate(tables) == tables # {}

\* querySql has settled: a rejection or an empty result is caught and false is
\* returned; else true.
UploadAfterQuery ==
    /\ upPc = "validating"
    /\ calls[upQuery].state # "pending"
    /\ UploadReturn(calls[upQuery].state = "resolved" /\ UploadValidate(calls[upQuery].results))
    /\ UNCHANGED <<upFile, upImport, upQuery, upSource, upPre, upFresh>>
    /\ UNCHANGED <<hostVars, bridgeVars, dataVars, appVars>>

\* No editor is open and nothing has been looked up.
AppIdle ==
    /\ docText = <<>>
    /\ selection = 0
    /\ edMarks = <<>>
    /\ content = <<>>
    /\ cache = <<>>
    /\ fetching = {}
    /\ fetchLog = <<>>
    /\ hoveredWordId = 0
    /\ tooltipData = <<>>

\* No hook is mounted: nothing of the data layer is in use.
DataIdle ==
    /\ dbTables = [t \in TableNames |-> {}]
    /\ sqliteSequence = [t \in TableNames |-> 0]
    /\ sqlQueue = <<>>
    /\ sqlReplies = <<>>
    /\ docs = {}
    /\ ops = <<>>
    /\ throws = 0
    /\ AppIdle

UploadIdle ==
    /\ upPc = "idle"
    /\ upFile = Garbage
    /\ upResult = "none"
    /\ upImport = 0
    /\ upQuery = 0
    /\ upSource = NewDb
    /\ upPre = NewDb
    /\ upFresh = FALSE

\* The application after startup: initSqlite() has resolved on either backend
\* and the database holds what earlier use left in it; the user holds the export
\* of some database.
AfterStartup ==
    LET req == Request("init", 1, 1, NoSql, Garbage)
        rsp == Response(req, TRUE, "", db, {}, Garbage) IN
    /\ sqlite3 = TRUE
    /\ inflight = {}
    /\ inbox = <<>>
    /\ outbox = <<>>
    /\ received = <<req>>
    /\ hostLog = <<[id |-> 1, n |-> 1, type |-> "init", success |-> TRUE, error |-> "",
                    afterClose |-> FALSE, afterCloseNoOpen |-> FALSE, dbOpen |-> TRUE]>>
    /\ closedNoInit = FALSE
    /\ closedNoOpen = FALSE
    /\ worker = 1
    /\ messageId = 1
    /\ initPromise = 1
    /\ pendingRequests = [i \in {} |-> 0]
    /\ closing = FALSE
    /\ calls = <<[kind |-> "init", id |-> 1, state |-> "resolved", error |-> "",
                  epoch |-> 0, initDone |-> FALSE, by |-> 1, results |-> {}]>>
    /\ initCallers = <<[epoch |-> 0, promise |-> 1]>>
    /\ issued = <<1>>
    /\ epoch = 0
    /\ workerEpochs = <<0>>
    /\ delivered = <<rsp>>

UploadSpecInit ==
    /\ db \in {"opfs", "memory"}
    /\ durable \in SampleDbs
    /\ mem \in IF db = "opfs" THEN {NewDb} ELSE SampleDbs
    /\ db = "memory" => durable \in {NewDb, SampleDb(TableNames, 0)}
    /\ AfterStartup
    /\ upPc = "idle"
    /\ upFile = Garbage
    /\ upResult = "none"
    /\ upImport = 0
    /\ upQuery = 0
    /\ upSource \in SampleDbs
    /\ upPre = NewDb
    /\ upFresh = FALSE
    /\ DataIdle

UploadSpecNext ==
    \/ UploadRead
    \/ UploadImport
    \/ UploadAfterImport
    \/ UploadAfterQuery
    \/ HostImport
    \/ HostImportVfsDone
    \/ HostQuery
    \/ HandleWorkerMessage

UploadSpec == UploadSpecInit /\ [][UploadSpecNext]_vars

\* A client posts a request to the worker.
ClientSend ==
    \E type \in ReqTypes :
        \E sql \in SqlInputs(type), data \in DataInputs(type) :
            /\ Len(received) + Len(inbox) < MaxReq
            /\ LET id == Len(received) + Len(inbox) + 1 IN
                inbox' = Append(inbox, Request(type, id, id, sql, data))
            /\ UNCHANGED <<sqlite3, db, durable, mem, inflight, outbox,
                           received, hostLog, closedNoInit, closedNoOpen>>
            /\ UNCHANGED notHost

HostStep ==
    \/ HostInit
    \/ HostInitModuleDone
    \/ HostInitVfsDone
    \/ HostExec
    \/ HostQuery
    \/ HostExport
    \/ HostImport
    \/ HostImportVfsDone
    \/ HostClose

\* A new worker: no module, no handle; the durable file is whatever an earlier
\* session left.
HostInitState ==
    /\ sqlite3 = FALSE
    /\ db = "null"
    /\ mem = NewDb
    /\ inflight = {}
    /\ inbox = <<>>
    /\ outbox = <<>>
    /\ received = <<>>
    /\ hostLog = <<>>
    /\ closedNoInit = FALSE
    /\ closedNoOpen = FALSE

\* lib/sqlite.ts as loaded: no worker, no promise, nothing pending.
BridgeInitState ==
    /\ worker = 0
    /\ messageId = 0
    /\ initPromise = 0
    /\ pendingRequests = [i \in {} |-> 0]
    /\ closing = FALSE
    /\ calls = <<>>
    /\ initCallers = <<>>
    /\ issued = <<>>
    /\ epoch = 0
    /\ workerEpochs = <<>>
    /\ delivered = <<>>

HostSpecInit ==
    /\ HostInitState
    /\ BridgeInitState
    /\ UploadIdle
    /\ DataIdle
    /\ durable \in {NewDb, SampleDb({"documents"}, 0)}

HostSpecNext == ClientSend \/ HostStep

HostSpec == HostSpecInit /\ [][HostSpecNext]_vars

\* The application's two contexts: the Bridge on the main thread and the Host in
\* the worker it creates.
Init ==
    /\ HostInitState
    /\ BridgeInitState
    /\ UploadIdle
    /\ DataIdle
    /\ durable = SampleDb({"documents"}, 0)

Next == BridgeStep \/ HostStep

Spec == Init /\ [][Next]_vars

\* ---------------------------------------------- the data layer (useDocuments)
\* The hooks reach the database one statement at a time: every `await db. ...`
\* posts one request to the Host and resumes when the response is handled on the
\* main thread.  The Host runs exec and query without awaiting, so statements
\* execute in the order posted and responses come back in that order; the
\* transport modelled above is reduced here to these two FIFO queues, and the
\* content of the database is kept row by row in dbTables.

\* Documents in the database when the dashboard is opened.
MaxDocs == 2
\* Calls of the functions of useDocuments.
MaxOps == 2
\* Statements that throw.
MaxThrows == 1
\* Vocabulary words in the database when the dashboard is opened: one in each
\* document, and a second one in the first.
MaxWords == MaxDocs + 1

DocIds == 1..MaxDocs

WordIds == 1..MaxWords

DocumentRow(id, title) == [id |-> id, title |-> title]

WordRow(id, documentId) == [id |-> id, documentId |-> documentId]

WordOverrideRow(id, wordId) == [id |-> id, wordId |-> wordId]

DocumentStatsRow(documentId, wordCount) == [documentId |-> documentId, wordCount |-> wordCount]

\* The statements the hooks build.
\* db.select().from(t).where(eq(t.col, v))
Select(t, col, v) == [verb |-> "select", table |-> t, col |-> col, val |-> v, set |-> <<>>]

\* db.delete(t).where(eq(t.col, v))
Delete(t, col, v) == [verb |-> "delete", table |-> t, col |-> col, val |-> v, set |-> <<>>]

\* db.update(t).set({f: x}).where(eq(t.col, v))
Update(t, col, v, f, x) == [verb |-> "update", table |-> t, col |-> col, val |-> v, set |-> <<f, x>>]

\* db.insert(t).values(row).returning({id}); the id is left to AUTOINCREMENT
Insert(t, row) == [verb |-> "insert", table |-> t, col |-> "id", val |-> 0, set |-> row]

\* db.insert(t).values(row) with the primary key `col` given in the row
InsertRow(t, col, row) ==
    [verb |-> "insertRow", table |-> t, col |-> col, val |-> row[col], set |-> row]

\* loadDocuments: every document (left-joined with its statistics row)
LoadDocumentsQuery == [verb |-> "selectAll", table |-> "documents", col |-> "id", val |-> 0, set |-> <<>>]

\* What SQLite does with a statement: the tables and the sequence afterwards, and
\* the rows returned.
Execute(tabs, seq, q) ==
    CASE q.verb = "select" ->
            [tables |-> tabs, seq |-> seq,
             rows |-> {r \in tabs[q.table] : r[q.col] = q.val}]
      [] q.verb = "selectAll" ->
            [tables |-> tabs, seq |-> seq, rows |-> tabs[q.table]]
      [] q.verb = "delete" ->
            [tables |-> [tabs EXCEPT ![q.table] = {r \in @ : r[q.col] # q.val}],
             seq |-> seq, rows |-> {}]
      [] q.verb = "update" ->
            [tables |-> [tabs EXCEPT ![q.table] =
                            {IF r[q.col] = q.val THEN [r EXCEPT ![q.set[1]] = q.set[2]] ELSE r
                                : r \in @}],
             seq |-> seq, rows |-> {}]
      [] q.verb = "insert" ->
            [tables |-> [tabs EXCEPT ![q.table] =
                            @ \cup {[q.set EXCEPT !.id = seq[q.table] + 1]}],
             seq |-> [seq EXCEPT ![q.table] = @ + 1],
             rows |-> {[id |-> seq[q.table] + 1]}]

\* The Host executes the oldest statement posted, or the statement throws; either
\* way one response is posted.
HostStatement ==
    /\ sqlQueue # <<>>
    /\ \E ok \in IF throws < MaxThrows THEN BOOLEAN ELSE {TRUE} :
        LET m == Head(sqlQueue)
            e == Execute(dbTables, sqliteSequence, m.q) IN
        /\ sqlQueue' = Tail(sqlQueue)
        /\ dbTables' = IF ok THEN e.tables ELSE dbTables
        /\ sqliteSequence' = IF ok THEN e.seq ELSE sqliteSequence
        /\ throws' = IF ok THEN throws ELSE throws + 1
        /\ sqlReplies' = Append(sqlReplies,
                                [p |-> m.p, ok |-> ok, rows |-> IF ok THEN e.rows ELSE {}])
    /\ UNCHANGED <<docs, ops>>
    /\ UNCHANGED <<hostVars, bridgeVars, uploadVars, appVars>>

\* The ids of a query result, in rowid order.
RECURSIVE SortedIds(_)
SortedIds(S) ==
    IF S = {} THEN <<>>
    ELSE LET m == CHOOSE x \in S : \A y \in S : x <= y IN <<m>> \o SortedIds(S \ {m})

\* The tables that hold a row of the document of call o: its Document row, its
\* Word rows, an override of one of its words, its statistics row.
Left(tabs, o) ==
    LET mine == o.owned \cup {w.id : w \in {x \in tabs["words"] : x.documentId = o.id}} IN
    {t \in TableNames :
        CASE t = "documents" -> \E r \in tabs[t] : r.id = o.id
          [] t = "words" -> \E r \in tabs[t] : r.documentId = o.id
          [] t = "word_overrides" -> \E r \in tabs[t] : r.wordId \in mine
          [] t = "document_stats" -> \E r \in tabs[t] : r.documentId = o.id}

\* A call of a function of the hook: its argument, the statement it awaits (pc),
\* its locals and what it returned.  owned, had and left are history: the words of
\* the document and the tables that held rows of it when the call was made, and
\* the tables that held rows of it when the call returned.
NewOp(kind, id, pc) ==
    LET o == [kind |-> kind, id |-> id, pc |-> pc,
              deleted |-> [document |-> {}, stats |-> {}], wordIds |-> <<>>,
              result |-> "pending", owned |-> {}, had |-> {}, left |-> {}]
        ws == {w.id : w \in {x \in dbTables["words"] : x.documentId = id}} IN
    [o EXCEPT !.owned = ws, !.had = Left(dbTables, [o EXCEPT !.owned = ws])]

\* The function awaits statement q at position pc.
Goto(o, pc, q) == [op |-> [o EXCEPT !.pc = pc], sql |-> <<q>>]

\* The function returns.
Done(o, result) == [op |-> [o EXCEPT !.pc = "returned", !.result = result], sql |-> <<>>]

\* (mutant of DeleteOverridesLoop: the loop over the words is skipped)
DeleteOverridesLoopSkipped(o, wordIds) ==
    Goto([o EXCEPT !.wordIds = <<>>], "deleteWords", Delete("words", "documentId", o.id))

\* `for (const word of wordIds) await db.delete(wordOverrides).where(...)`, and
\* after the last word `await db.delete(words).where(eq(words.documentId, id))`.
DeleteOverridesLoop(o, wordIds) ==
    IF wordIds # <<>>
    THEN Goto([o EXCEPT !.wordIds = wordIds], "deleteOverrides",
              Delete("word_overrides", "wordId", Head(wordIds)))
    ELSE Goto([o EXCEPT !.wordIds = <<>>], "deleteWords",
              Delete("words", "documentId", o.id))

\* deleteDocument resumes with response r of the statement it awaited.  A
\* statement that throws takes it to the catch (return null), except inside
\* loadDocuments, which catches its own errors.
DeleteDocumentNext(o, r) ==
    IF o.pc = "loadDocuments" THEN Done(o, "deleted")
    ELSE IF ~r.ok THEN Done(o, "null")
    ELSE CASE o.pc = "selectDoc" ->
                IF r.rows = {} THEN Done(o, "null")
                ELSE Goto([o EXCEPT !.deleted.document = r.rows], "selectStats",
                          Select("document_stats", "documentId", o.id))
          [] o.pc = "selectStats" ->
                Goto([o EXCEPT !.deleted.stats = r.rows], "deleteStats",
                     Delete("document_stats", "documentId", o.id))
          [] o.pc = "deleteStats" ->
                Goto(o, "selectWords", Select("words", "documentId", o.id))
          [] o.pc = "selectWords" ->
                DeleteOverridesLoop(o, SortedIds({w.id : w \in r.rows}))
          [] o.pc = "deleteOverrides" ->
                DeleteOverridesLoop(o, Tail(o.wordIds))
          [] o.pc = "deleteWords" ->
                Goto(o, "deleteDocument", Delete("documents", "id", o.id))
          [] o.pc = "deleteDocument" ->
                Goto(o, "loadDocuments", LoadDocumentsQuery)

\* createDocument: the insert returning the new id, then loadDocuments.
CreateDocumentNext(o, r) ==
    IF o.pc = "loadDocuments" THEN Done(o, "id")
    ELSE IF ~r.ok \/ r.rows = {} THEN Done(o, "null")
    ELSE Goto([o EXCEPT !.id = (CHOOSE x \in r.rows : TRUE).id], "loadDocuments",
              LoadDocumentsQuery)

\* renameDocument: the update, then loadDocuments; a failure is only logged.
RenameDocumentNext(o, r) ==
    IF o.pc = "loadDocuments" \/ ~r.ok THEN Done(o, "void")
    ELSE Goto(o, "loadDocuments", LoadDocumentsQuery)

\* The main thread handles the oldest response: the function that awaited it
\* continues to its next await, or returns.  The response of loadDocuments'
\* query becomes the list shown (setDocs).
Resume(r, n) ==
    /\ sqlReplies' = Tail(sqlReplies)
    /\ sqlQueue' = sqlQueue \o [i \in 1..Len(n.sql) |-> [p |-> r.p, q |-> n.sql[i]]]
    /\ ops' = [ops EXCEPT ![r.p] =
                  IF n.op.pc = "returned" THEN [n.op EXCEPT !.left = Left(dbTables, n.op)]
                  ELSE n.op]
    /\ docs' = IF ops[r.p].pc = "loadDocuments" /\ r.ok THEN {d.id : d \in r.rows} ELSE docs
    /\ UNCHANGED <<dbTables, sqliteSequence, throws>>
    /\ UNCHANGED <<hostVars, bridgeVars, uploadVars, appVars>>

DeleteDocumentResume ==
    /\ sqlReplies # <<>>
    /\ ops[Head(sqlReplies).p].kind = "delete"
    /\ Resume(Head(sqlReplies), DeleteDocumentNext(ops[Head(sqlReplies).p], Head(sqlReplies)))

CreateDocumentResume ==
    /\ sqlReplies # <<>>
    /\ ops[Head(sqlReplies).p].kind = "create"
    /\ Resume(Head(sqlReplies), CreateDocumentNext(ops[Head(sqlReplies).p], Head(sqlReplies)))

RenameDocumentResume ==
    /\ sqlReplies # <<>>
    /\ ops[Head(sqlReplies).p].kind = "rename"
    /\ Resume(Head(sqlReplies), RenameDocumentNext(ops[Head(sqlReplies).p], Head(sqlReplies)))

\* A function of the hook is called: it runs to its first await.
CallOp(o, q) ==
    /\ Len(ops) < MaxOps
    /\ ops' = Append(ops, o)
    /\ sqlQueue' = Append(sqlQueue, [p |-> Len(ops) + 1, q |-> q])
    /\ UNCHANGED <<dbTables, sqliteSequence, sqlReplies, docs, throws>>
    /\ UNCHANGED <<hostVars, bridgeVars, uploadVars, appVars>>

\* deleteDocument(id), from the menu of a card of the list.
DeleteDocument ==
    \E id \in docs :
        CallOp(NewOp("delete", id, "selectDoc"), Select("documents", "id", id))

\* createDocument()
CreateDocument ==
    CallOp(NewOp("create", 0, "insert"), Insert("documents", DocumentRow(0, "Untitled")))

\* renameDocument(id, title), from a card of the list.
RenameDocument ==
    \E id \in docs :
        CallOp(NewOp("rename", id, "update"),
               Update("documents", "id", id, "title", "Renamed"))

\* The dashboard is open on a database that holds MaxDocs documents, each word
\* in one of them, some words with an override and some documents with a
\* statistics row; the list shows the documents.
DataSpecInit ==
    /\ db = "opfs"
    /\ durable = SampleDb(TableNames, 0)
    /\ mem = NewDb
    /\ AfterStartup
    /\ UploadIdle
    /\ \E over \in SUBSET WordIds, stats \in SUBSET DocIds :
        dbTables = [t \in TableNames |->
            CASE t = "documents" -> {DocumentRow(d, "Untitled") : d \in DocIds}
              [] t = "words" -> {WordRow(w, ((w - 1) % MaxDocs) + 1) : w \in WordIds}
              [] t = "word_overrides" -> {WordOverrideRow(w, w) : w \in over}
              [] t = "document_stats" -> {DocumentStatsRow(d, d) : d \in stats}]
    /\ sqliteSequence = [t \in TableNames |-> IF t = "documents" THEN MaxDocs ELSE MaxWords]
    /\ sqlQueue = <<>>
    /\ sqlReplies = <<>>
    /\ docs = DocIds
    /\ ops = <<>>
    /\ throws = 0
    /\ AppIdle

\* restoreDocument resumes with response r: the Document row is inserted as
\* it was read by deleteDocument, then the statistics row if there was one,
\* then loadDocuments; a failure is only logged.
RestoreDocumentNext(o, r) ==
    IF o.pc = "loadDocuments" \/ ~r.ok THEN Done(o, "void")
    ELSE CASE o.pc = "insertDoc" ->
                IF o.deleted.stats # {}
                THEN Goto(o, "insertStats",
                          InsertRow("document_stats", "documentId",
                                    CHOOSE x \in o.deleted.stats : TRUE))
                ELSE Goto(o, "loadDocuments", LoadDocumentsQuery)
           [] o.pc = "insertStats" -> Goto(o, "loadDocuments", LoadDocumentsQuery)

\* restoreDocument(data), from the undo of a deletion: data is what that
\* deleteDocument call returned.
RestoreDocument ==
    \E p \in 1..Len(ops) :
        /\ ops[p].kind = "delete" /\ ops[p].result = "deleted"
        /\ \A i \in 1..Len(ops) : ~(ops[i].kind = "restore" /\ ops[i].wordIds = <<p>>)
        /\ LET o == [NewOp("restore", ops[p].id, "insertDoc") EXCEPT
                        !.deleted = ops[p].deleted, !.wordIds = <<p>>]
                row == CHOOSE x \in ops[p].deleted.document : TRUE IN
            /\ ops' = Append(ops, o)
            /\ sqlQueue' = Append(sqlQueue, [p |-> Len(ops) + 1,
                                             q |-> InsertRow("documents", "id", row)])
        /\ UNCHANGED <<dbTables, sqliteSequence, sqlReplies, docs, throws>>
        /\ UNCHANGED <<hostVars, bridgeVars, uploadVars, appVars>>

RestoreDocumentResume ==
    /\ sqlReplies # <<>>
    /\ ops[Head(sqlReplies).p].kind = "restore"
    /\ Resume(Head(sqlReplies), RestoreDocumentNext(ops[Head(sqlReplies).p], Head(sqlReplies)))

DataSpecNext ==
    \/ DeleteDocument
    \/ CreateDocument
    \/ RenameDocument
    \/ HostStatement
    \/ DeleteDocumentResume
    \/ CreateDocumentResume
    \/ RenameDocumentResume

DataSpec == DataSpecInit /\ [][DataSpecNext]_vars

\* -------------------------------------------------------- word candidates
\* A text is a sequence of tokens.  A token stands for one UTF-16 code unit of a
\* class the validation tells apart, except "a40", a run of 40 lower-case
\* letters:
\*   "a"  a lower-case ASCII letter        "A"  an upper-case ASCII letter
\*   "."  a character that is neither \w nor \s
\*   " "  a white-space character
\*   "K"  KELVIN SIGN: not \w, lower-cased to the ASCII letter "k"
\*   "I"  LATIN CAPITAL LETTER I WITH DOT ABOVE: not \w, lower-cased to the two
\*        code units "i" and "~" (COMBINING DOT ABOVE, not \w)
\* Longest text selected, in tokens.
MaxTextLen == 3

\* `trimmed.length > 40`
MaxWordLength == 40

Alphabet == {"a", "A", ".", " ", "K", "I", "a40"}

Texts == UNION {[1..n -> Alphabet] : n \in 0..MaxTextLen}

\* The code units a token stands for.
Width(c) == IF c = "a40" THEN 40 ELSE 1

\* String.prototype.length
RECURSIVE Length(_)
Length(s) == IF s = <<>> THEN 0 ELSE Width(Head(s)) + Length(Tail(s))

\* \s
IsSpace(c) == c = " "

\* \w
IsWordChar(c) == c \in {"a", "A", "k", "i", "a40"}

\* String.prototype.toLowerCase, one token
LowerCase(c) ==
    CASE c = "A" -> <<"a">>
      [] c = "K" -> <<"k">>
      [] c = "I" -> <<"i", "~">>
      [] OTHER -> <<c>>

\* String.prototype.toLowerCase
RECURSIVE ToLowerCase(_)
ToLowerCase(s) == IF s = <<>> THEN <<>> ELSE LowerCase(Head(s)) \o ToLowerCase(Tail(s))

RECURSIVE TrimStart(_)
TrimStart(s) == IF s # <<>> /\ IsSpace(Head(s)) THEN TrimStart(Tail(s)) ELSE s

RECURSIVE TrimEnd(_)
TrimEnd(s) ==
    IF s # <<>> /\ IsSpace(s[Len(s)]) THEN TrimEnd(SubSeq(s, 1, Len(s) - 1)) ELSE s

\* String.prototype.trim
Trim(s) == TrimEnd(TrimStart(s))

\* /\s/.test(s)
HasWhitespace(s) == \E i \in 1..Len(s) : IsSpace(s[i])

\* (mutant of StripLeading: one character is removed, not the whole run)
StripLeadingOnce(s) == IF s # <<>> /\ ~IsWordChar(Head(s)) THEN Tail(s) ELSE s

\* .replace(/^[^\w]+/, '')
RECURSIVE StripLeading(_)
StripLeading(s) == IF s # <<>> /\ ~IsWordChar(Head(s)) THEN StripLeading(Tail(s)) ELSE s

\* .replace(/[^\w]+$/, '')
RECURSIVE StripTrailing(_)
StripTrailing(s) ==
    IF s # <<>> /\ ~IsWordChar(s[Len(s)]) THEN StripTrailing(SubSeq(s, 1, Len(s) - 1))
    ELSE s

\* The normalization both validators apply: trim, lower-case, strip the
\* non-word characters at both ends.
Normalize(s) == StripTrailing(StripLeading(ToLowerCase(Trim(s))))

\* null
NoWord == [ok |-> FALSE, text |-> <<>>, normalized |-> <<>>]

\* (mutant of ValidateVocabWord: the test for white space is left out)
ValidateVocabWordNoSpaceTest(text) ==
    LET trimmed == Trim(text)
        normalized == StripTrailing(StripLeading(ToLowerCase(trimmed))) IN
    IF Length(trimmed) = 0 \/ Length(trimmed) > MaxWordLength THEN NoWord
    ELSE IF Length(normalized) = 0 THEN NoWord
    ELSE [ok |-> TRUE, text |-> trimmed, normalized |-> normalized]

\* validateVocabWord of EditorBubbleMenu.tsx
ValidateVocabWord(text) ==
    LET trimmed == Trim(text)
        normalized == StripTrailing(StripLeading(ToLowerCase(trimmed))) IN
    IF Length(trimmed) = 0 \/ Length(trimmed) > MaxWordLength THEN NoWord
    ELSE IF HasWhitespace(trimmed) THEN NoWord
    ELSE IF Length(normalized) = 0 THEN NoWord
    ELSE [ok |-> TRUE, text |-> trimmed, normalized |-> normalized]

\* validateSelection of useVocabSelection.ts, with updateSelection's
\* `text: text.trim()`
ValidateSelection(text) ==
    LET trimmed == Trim(text)
        normalized == StripTrailing(StripLeading(ToLowerCase(trimmed))) IN
    IF Length(trimmed) = 0 \/ Length(trimmed) > MaxWordLength THEN NoWord
    ELSE IF HasWhitespace(trimmed) THEN NoWord
    ELSE IF Length(normalized) = 0 THEN NoWord
    ELSE [ok |-> TRUE, text |-> trimmed, normalized |-> normalized]

\* ------------------------------------------------------ dictionary data
\* useDictionaryLookup: the session cache (`cache`), lookupWord, updateOverrides
\* and clearCache, with the remote dictionary.  fetching holds the lookups that
\* await the dictionary; fetchLog lists the normalized headwords fetched.

\* Calls of the functions of the hook.
MaxHookCalls == 3

\* Calls of them in progress at a time.
MaxInFlight == 2

\* The wordIds looked up: the words in the database and one id without a row.
LookupIds == 1..3

\* null
Null == "null"

\* `x || null`
OrNull(x) == IF x = "" THEN Null ELSE x

\* JSON.stringify of a list of strings: its text, as tokens.
Stringify(list) == <<"[">> \o list \o <<"]">>

\* JSON.parse of such a text.
Parse(json) == SubSeq(json, 2, Len(json) - 1)

\* What fetchDictionaryEntry resolves with: null, or the parsed entry, whose
\* fields may be null and whose synonym list may be empty.
ApiNone ==
    [found |-> FALSE, phonetic |-> Null, audioUrl |-> Null, partOfSpeech |-> Null,
     definition |-> Null, synonyms |-> <<>>]

ApiEntry(full) ==
    [found |-> TRUE, phonetic |-> IF full THEN "fo" ELSE Null,
     audioUrl |-> IF full THEN "mp3" ELSE Null, partOfSpeech |-> "noun",
     definition |-> "def", synonyms |-> IF full THEN <<"syn">> ELSE <<>>]

\* What the remote dictionary does with a request: it answers with an entry,
\* with an empty list, with status 404 or with another failure status, or the
\* request fails in the network.
Responses == {"entry", "empty", "notFound", "failure", "networkError"}

\* fetchDictionaryEntry: 404 and an empty list return null; another status
\* throws, a network error rejects, and the catch returns null.
FetchDictionaryEntry(response) ==
    CASE response = "entry" -> ApiEntry(TRUE)
      [] response = "empty" -> ApiNone
      [] response = "notFound" -> ApiNone
      [] response \in {"failure", "networkError"} -> ApiNone

\* The row lookupWord inserts for an API result, and the `dictEntry` it goes on
\* with (the same fields, synonyms as JSON text).
EntryRow(headwordNorm, api) ==
    [id |-> 0, headwordNorm |-> headwordNorm, phonetic |-> api.phonetic,
     audioUrl |-> api.audioUrl, partOfSpeech |-> api.partOfSpeech,
     definition |-> api.definition, synonyms |-> Stringify(api.synonyms)]

\* `r[0] || null` for the dictionary entry.
NoEntry == [id |-> 0, headwordNorm |-> <<>>, phonetic |-> Null, audioUrl |-> Null,
            partOfSpeech |-> Null, definition |-> Null, synonyms |-> <<>>]

\* A row of word_overrides.
OverrideRow(wordId, notes, updatedAt) ==
    [id |-> 0, wordId |-> wordId, customDefinition |-> Null, customPhonetic |-> Null,
     notes |-> notes, updatedAt |-> updatedAt]

\* `r[0] || null` for the override.
NoOverride == OverrideRow(0, Null, 0)

\* WordData
WordData(wordId, headword, entry, overrides, isLoading) ==
    [wordId |-> wordId, headword |-> headword,
     phonetic |-> OrNull(entry.phonetic), audioUrl |-> OrNull(entry.audioUrl),
     partOfSpeech |-> OrNull(entry.partOfSpeech), definition |-> OrNull(entry.definition),
     synonyms |-> IF entry.synonyms # <<>> THEN Parse(entry.synonyms) ELSE <<>>,
     customDefinition |-> OrNull(overrides.customDefinition),
     customPhonetic |-> OrNull(overrides.customPhonetic),
     notes |-> OrNull(overrides.notes), isLoading |-> isLoading]

\* loadingData
LoadingData(wordId) == WordData(wordId, <<>>, NoEntry, NoOverride, TRUE)

\* The value of a call that returned null or has not returned.
NoData == WordData(0, <<>>, NoEntry, NoOverride, FALSE)

\* new Map(prev).set(id, v)
MapSet(map, id, v) == [i \in DOMAIN map \cup {id} |-> IF i = id THEN v ELSE map[i]]

\* new Date(), as the number of calls made so far
Stamp == Len(ops)

\* db.update(t).set(fields).where(eq(t.col, v))
UpdateRow(t, col, v, fields) ==
    [verb |-> "updateRow", table |-> t, col |-> col, val |-> v, set |-> fields]

\* (mutant of Conflicts: no UNIQUE index)
ConflictsNever(tabs, q) == FALSE

\* The UNIQUE index on dictionary_entries.headword_norm refuses the statement,
\* or the PRIMARY KEY does: a row with the key of the row inserted exists.
Conflicts(tabs, q) ==
    \/ /\ q.verb = "insert"
       /\ q.table = "dictionary_entries"
       /\ \E r \in tabs[q.table] : r.headwordNorm = q.set.headwordNorm
    \/ /\ q.verb = "insertRow"
       /\ \E r \in tabs[q.table] : r[q.col] = q.val

\* ---------------------------------------------------- document statistics
\* lib/document-stats.ts: the plain text of a content, its snippet and its word
\* count.  Here a text is a sequence of characters: the token "a40" of a place
\* stands for forty letters and is written out.

\* The characters a token stands for.
Chars(tok) == IF tok = "a40" THEN [i \in 1..MaxWordLength |-> "a"] ELSE <<tok>>

RECURSIVE Expand(_)
Expand(s) ==
    IF \A i \in 1..Len(s) : Chars(s[i]) = <<s[i]>> THEN s
    ELSE Chars(Head(s)) \o Expand(Tail(s))

RECURSIVE Join(_)
Join(parts) == IF parts = <<>> THEN <<>> ELSE Expand(Head(parts)) \o Join(Tail(parts))

\* extractPlainText: the text of every text node, a space after the paragraph,
\* joined and trimmed.
ExtractPlainText(c) == Trim(Join(c.text) \o <<" ">>)

\* The `maxLen` default of computeSnippet.
SnippetMaxLen == 140

\* The character computeSnippet appends to a shortened text.
Ellipsis == "..."

\* truncated.lastIndexOf(' '): the index, from 0, of the last space; -1 for none.
LastIndexOfSpace(s) ==
    LET at == {i \in 1..Len(s) : s[i] = " "} IN
    IF at = {} THEN -1 ELSE (CHOOSE i \in at : \A j \in at : j <= i) - 1

\* (mutant of ComputeSnippet: always cut at maxLen)
ComputeSnippetHardCut(text) ==
    IF Len(text) <= SnippetMaxLen THEN text
    ELSE SubSeq(text, 1, SnippetMaxLen) \o <<Ellipsis>>

\* computeSnippet(text): maxLen * 0.7 is 98 for the default maxLen.
ComputeSnippet(text) ==
    IF Len(text) <= SnippetMaxLen THEN text
    ELSE LET truncated == SubSeq(text, 1, SnippetMaxLen)
             lastSpace == LastIndexOfSpace(truncated) IN
         IF lastSpace * 10 > SnippetMaxLen * 7
         THEN SubSeq(truncated, 1, lastSpace) \o <<Ellipsis>>
         ELSE truncated \o <<Ellipsis>>

\* text.split(/\s+/): the pieces between the runs of whitespace.
RECURSIVE SplitWhitespace(_)
SplitWhitespace(s) ==
    LET spaces == {i \in 1..Len(s) : IsSpace(s[i])} IN
    IF spaces = {} THEN <<s>>
    ELSE LET i == CHOOSE x \in spaces : \A y \in spaces : x <= y
             rest == {j \in (i + 1)..Len(s) : ~IsSpace(s[j])}
             j == IF rest = {} THEN Len(s) + 1
                  ELSE CHOOSE x \in rest : \A y \in rest : x <= y IN
         <<SubSeq(s, 1, i - 1)>> \o SplitWhitespace(SubSeq(s, j, Len(s)))

\* (mutant of CountWords: without the test for an empty text)
CountWordsOfSplit(text) == Len(SplitWhitespace(Trim(text)))

\* countWords(text)
CountWords(text) ==
    IF Trim(text) = <<>> THEN 0 ELSE Len(SplitWhitespace(Trim(text)))

\* ------------------------------------------------------------ the editor
\* The document page: the editor (docText, selection, edMarks), the `content`
\* state of useDocument, and the handlers that add and remove vocabulary words.
\* The text of the document is a sequence of places the user can select; the
\* vocabulary mark of a place is the wordId it carries, 0 for none.  A content
\* (editor JSON, `content`, documents.content_json) is one paragraph of text
\* nodes: the texts of the places and the marks of the places.

\* Calls of the handlers of the page (add word, remove word, typing).
MaxEdits == 2

\* The document the page shows (the `documentId` prop).
OpenDocument == 1

\* A row of `words` as the page writes it.
VocabWordRow(id, documentId, headword, headwordNorm) ==
    [id |-> id, documentId |-> documentId, headword |-> headword,
     headwordNorm |-> headwordNorm]

\* A row of `documents` with its content.
ContentRow(id, contentJson) == [id |-> id, title |-> "Untitled", contentJson |-> contentJson]

\* The row updateDocumentStats writes.
StatsRow(documentId, snippet, wordCount, vocabCount) ==
    [documentId |-> documentId, snippet |-> snippet, wordCount |-> wordCount,
     vocabCount |-> vocabCount]

\* A content: the text nodes of the paragraph and their vocabulary marks.
JSONContent(text, marks) == [text |-> text, marks |-> marks]

\* editor.getJSON()
EditorContent == JSONContent(docText, edMarks)

\* db.select().from(t).where(eq(t.col, v)).orderBy(t.id).limit(1)
SelectFirst(t, col, v) == [verb |-> "selectFirst", table |-> t, col |-> col, val |-> v, set |-> <<>>]

\* db.insert(t).values(row).onConflictDoUpdate({target: t.col, set: row})
Upsert(t, col, row) == [verb |-> "upsert", table |-> t, col |-> col, val |-> row[col], set |-> row]

\* (mutant of ExecuteSql: on a conflict the upsert keeps the row that is there)
ExecuteSqlInsertOrIgnore(tabs, seq, q) ==
    CASE q.verb = "selectFirst" ->
            LET found == {r \in tabs[q.table] : r[q.col] = q.val} IN
            [tables |-> tabs, seq |-> seq,
             rows |-> {r \in found : \A x \in found : r.id <= x.id}]
      [] q.verb = "upsert" ->
            [tables |-> [tabs EXCEPT ![q.table] =
                            IF \E r \in @ : r[q.col] = q.val THEN @ ELSE @ \cup {q.set}],
             seq |-> seq, rows |-> {}]
      [] q.verb = "updateRow" ->
            [tables |-> [tabs EXCEPT ![q.table] =
                            {IF r[q.col] = q.val
                             THEN [f \in DOMAIN r |->
                                        IF f \in DOMAIN q.set THEN q.set[f] ELSE r[f]]
                             ELSE r : r \in @}],
             seq |-> seq, rows |-> {}]
      [] OTHER -> Execute(tabs, seq, q)

\* What SQLite does with a statement of the page: the verbs of Execute, and the
\* two above.
ExecuteSql(tabs, seq, q) ==
    CASE q.verb = "selectFirst" ->
            LET found == {r \in tabs[q.table] : r[q.col] = q.val} IN
            [tables |-> tabs, seq |-> seq,
             rows |-> {r \in found : \A x \in found : r.id <= x.id}]
      [] q.verb = "upsert" ->
            [tables |-> [tabs EXCEPT ![q.table] =
                            {r \in @ : r[q.col] # q.val} \cup {q.set}],
             seq |-> seq, rows |-> {}]
      [] q.verb = "updateRow" ->
            [tables |-> [tabs EXCEPT ![q.table] =
                            {IF r[q.col] = q.val
                             THEN [f \in DOMAIN r |->
                                        IF f \in DOMAIN q.set THEN q.set[f] ELSE r[f]]
                             ELSE r : r \in @}],
             seq |-> seq, rows |-> {}]
      [] q.verb = "insertRow" ->
            [tables |-> [tabs EXCEPT ![q.table] = @ \cup {q.set}],
             seq |-> seq, rows |-> {}]
      [] OTHER -> Execute(tabs, seq, q)

\* The Host executes the oldest statement posted, or the statement throws: it
\* does when the UNIQUE index refuses it, and it may for another reason.
SqlStatement ==
    /\ sqlQueue # <<>>
    /\ \E ok \in IF Conflicts(dbTables, Head(sqlQueue).q) THEN {FALSE}
                 ELSE IF throws < MaxThrows THEN BOOLEAN ELSE {TRUE} :
        LET m == Head(sqlQueue)
            e == ExecuteSql(dbTables, sqliteSequence, m.q) IN
        /\ sqlQueue' = Tail(sqlQueue)
        /\ dbTables' = IF ok THEN e.tables ELSE dbTables
        /\ sqliteSequence' = IF ok THEN e.seq ELSE sqliteSequence
        /\ throws' = IF ok \/ Conflicts(dbTables, m.q) THEN throws ELSE throws + 1
        /\ sqlReplies' = Append(sqlReplies,
                                [p |-> m.p, ok |-> ok, rows |-> IF ok THEN e.rows ELSE {}])
    /\ UNCHANGED <<docs, ops>>
    /\ UNCHANGED <<hostVars, bridgeVars, uploadVars, appVars>>

\* A call of a handler or of saveContent: the statement it awaits (pc), its
\* arguments and locals.  place and raw are the selection the handler was called
\* on; captured is the content the call holds (the `content` of the closure, or
\* the argument of saveContent).  History of the call: inserted is the id the
\* insert of handleAddWord produced, stats what became of the statistics of a
\* save ("written", or "failed" when updateDocumentStats caught an error),
\* overlaps whether an earlier save was in progress when this save was called,
\* save the save call a completed handleRemoveWord made.
PageOp(kind, id, pc) ==
    [kind |-> kind, id |-> id, pc |-> pc, result |-> "pending", place |-> 0,
     raw |-> <<>>, text |-> <<>>, normalized |-> <<>>, captured |-> <<>>,
     inserted |-> 0, stats |-> "none", overlaps |-> FALSE, save |-> 0]

\* Handler calls made so far.
Edits == Cardinality({i \in 1..Len(ops) : ops[i].kind \in {"addWord", "removeWord", "type"}})

\* saveContent(newContent) up to its first await: the caller sets `content`.
SaveContent(newContent) ==
    Goto([PageOp("saveContent", OpenDocument, "update") EXCEPT
            !.captured = newContent,
            !.overlaps = \E i \in 1..Len(ops) :
                            ops[i].kind = "saveContent" /\ ops[i].pc # "returned"],
         "update", Update("documents", "id", OpenDocument, "contentJson", newContent))

\* (mutant of SaveContentNext: a failure of the statistics fails the save)
SaveContentNextRejecting(o, r) ==
    CASE o.pc = "update" ->
            IF ~r.ok THEN Done(o, "error")
            ELSE Goto(o, "count", Select("words", "documentId", o.id))
      [] o.pc = "count" ->
            IF ~r.ok THEN Done([o EXCEPT !.stats = "failed"], "error")
            ELSE Goto(o, "upsert",
                      Upsert("document_stats", "documentId",
                             StatsRow(o.id,
                                      ComputeSnippet(ExtractPlainText(o.captured)),
                                      CountWords(ExtractPlainText(o.captured)),
                                      Cardinality(r.rows))))
      [] o.pc = "upsert" ->
            IF ~r.ok THEN Done([o EXCEPT !.stats = "failed"], "error")
            ELSE Done([o EXCEPT !.stats = "written"], "saved")

\* saveContent resumes with response r: a failed update is logged; after the
\* update updateDocumentStats counts the words of the document and upserts the
\* statistics row, and swallows its own errors.
SaveContentNext(o, r) ==
    CASE o.pc = "update" ->
            IF ~r.ok THEN Done(o, "error")
            ELSE Goto(o, "count", Select("words", "documentId", o.id))
      [] o.pc = "count" ->
            IF ~r.ok THEN Done([o EXCEPT !.stats = "failed"], "saved")
            ELSE Goto(o, "upsert",
                      Upsert("document_stats", "documentId",
                             StatsRow(o.id,
                                      ComputeSnippet(ExtractPlainText(o.captured)),
                                      CountWords(ExtractPlainText(o.captured)),
                                      Cardinality(r.rows))))
      [] o.pc = "upsert" ->
            Done([o EXCEPT !.stats = IF r.ok THEN "written" ELSE "failed"], "saved")

\* The main thread handles the oldest response: call r.p continues as n says, and
\* the calls of `spawn` start (each runs to its first await).
PageResume(r, n, spawn) ==
    /\ sqlReplies' = Tail(sqlReplies)
    /\ ops' = [ops EXCEPT ![r.p] = n.op] \o [i \in 1..Len(spawn) |-> spawn[i].op]
    /\ sqlQueue' = sqlQueue
                    \o [i \in 1..Len(n.sql) |-> [p |-> r.p, q |-> n.sql[i]]]
                    \o [i \in 1..Len(spawn) |-> [p |-> Len(ops) + i, q |-> spawn[i].sql[1]]]
    /\ UNCHANGED <<dbTables, sqliteSequence, docs, throws>>
    /\ UNCHANGED <<hostVars, bridgeVars, uploadVars>>

\* A handler is called: it runs to its first await, or returns at once.
PageCall(n) ==
    /\ Edits < MaxEdits
    /\ ops' = Append(ops, n.op)
    /\ sqlQueue' = sqlQueue \o [i \in 1..Len(n.sql) |-> [p |-> Len(ops) + 1, q |-> n.sql[i]]]
    /\ UNCHANGED <<dbTables, sqliteSequence, sqlReplies, docs, throws>>
    /\ UNCHANGED <<hostVars, bridgeVars, uploadVars>>

\* The user selects a place of the text, or nothing.
SelectText ==
    /\ \E p \in 0..Len(docText) : p # selection /\ selection' = p
    /\ UNCHANGED <<docText, edMarks, content, lookupVars>>
    /\ UNCHANGED <<hostVars, bridgeVars, uploadVars, dataVars>>

\* handleAddWord up to its first await: without a valid selection it returns;
\* otherwise it inserts the Word row.
HandleAddWordStart(place, raw) ==
    LET v == ValidateVocabWord(raw)
        o == [PageOp("addWord", 0, "insert") EXCEPT
                !.place = place, !.raw = raw, !.text = v.text,
                !.normalized = v.normalized] IN
    IF ~v.ok THEN Done(o, "rejected")
    ELSE Goto(o, "insert",
              Insert("words", VocabWordRow(0, OpenDocument, v.text, v.normalized)))

HandleAddWord ==
    /\ selection # 0
    /\ PageCall(HandleAddWordStart(selection, docText[selection]))
    /\ UNCHANGED appVars

\* handleAddWord resumes: after the insert it selects the first word with the
\* normalized headword and takes its id.
HandleAddWordNext(o, r) ==
    IF ~r.ok THEN Done(o, "error")
    ELSE CASE o.pc = "insert" ->
                Goto([o EXCEPT !.inserted = (CHOOSE x \in r.rows : TRUE).id],
                     "select", SelectFirst("words", "headwordNorm", o.normalized))
           [] o.pc = "select" ->
                IF r.rows = {} THEN Done(o, "none")
                ELSE Done([o EXCEPT !.id = (CHOOSE x \in r.rows : TRUE).id], "marked")

\* With the id, setVocabMark marks the selected range; the transaction makes the
\* editor call onUpdate, and the handler calls onContentChange itself: two
\* saveContent calls with the editor's content.
AddWordResume ==
    /\ sqlReplies # <<>>
    /\ ops[Head(sqlReplies).p].kind = "addWord"
    /\ LET r == Head(sqlReplies)
           n == HandleAddWordNext(ops[r.p], r)
           marked == [edMarks EXCEPT ![n.op.place] = n.op.id]
           json == JSONContent(docText, marked) IN
       IF n.op.result = "marked"
       THEN /\ edMarks' = marked
            /\ content' = json
            /\ PageResume(r, n, <<SaveContent(json), SaveContent(json)>>)
       ELSE /\ UNCHANGED <<edMarks, content>>
            /\ PageResume(r, n, <<>>)
    /\ UNCHANGED <<docText, selection, lookupVars>>

SaveContentResume ==
    /\ sqlReplies # <<>>
    /\ ops[Head(sqlReplies).p].kind = "saveContent"
    /\ PageResume(Head(sqlReplies), SaveContentNext(ops[Head(sqlReplies).p], Head(sqlReplies)),
                  <<>>)
    /\ UNCHANGED appVars

\* What the user may type in one transaction: nothing new (a change that
\* leaves the text as it is), or a new text node at the end of the paragraph.
Typed == {<<>>, <<" ", "a">>}

\* The user types: the editor calls onUpdate, which saves the editor's content.
EditorOnUpdate ==
    /\ Edits < MaxEdits
    /\ \E typed \in Typed :
        LET text == IF typed = <<>> THEN docText ELSE Append(docText, typed)
            marks == IF typed = <<>> THEN edMarks ELSE Append(edMarks, 0)
            n == SaveContent(JSONContent(text, marks)) IN
        /\ docText' = text
        /\ edMarks' = marks
        /\ content' = JSONContent(text, marks)
        /\ ops' = ops \o <<[PageOp("type", 0, "returned") EXCEPT !.result = "typed"], n.op>>
        /\ sqlQueue' = Append(sqlQueue, [p |-> Len(ops) + 2, q |-> n.sql[1]])
    /\ UNCHANGED <<selection, lookupVars>>
    /\ UNCHANGED <<dbTables, sqliteSequence, sqlReplies, docs, throws>>
    /\ UNCHANGED <<hostVars, bridgeVars, uploadVars>>

\* removeMarkFromContent: the marks of wordId are removed from a copy of c.
RemoveMarkFromContent(c, wordId) ==
    JSONContent(c.text, [i \in 1..Len(c.marks) |-> IF c.marks[i] = wordId THEN 0 ELSE c.marks[i]])

\* handleRemoveWord(wordId), from the tooltip of a mark the editor shows; it
\* holds the `content` of the render that made it.
HandleRemoveWord ==
    /\ \E wordId \in {edMarks[i] : i \in 1..Len(edMarks)} \ {0} :
        PageCall(Goto([PageOp("removeWord", wordId, "deleteOverrides") EXCEPT
                            !.captured = content],
                      "deleteOverrides", Delete("word_overrides", "wordId", wordId)))
    /\ UNCHANGED appVars

HandleRemoveWordNext(o, r) ==
    IF ~r.ok THEN Done(o, "error")
    ELSE CASE o.pc = "deleteOverrides" -> Goto(o, "deleteWord", Delete("words", "id", o.id))
           [] o.pc = "deleteWord" -> Done(o, "removed")

\* After the two deletes the handler saves the content without the mark and
\* clears the cache; ArticleEditor copies the new `content` into the editor
\* unless the editor has the focus.
RemoveWordResume ==
    /\ sqlReplies # <<>>
    /\ ops[Head(sqlReplies).p].kind = "removeWord"
    /\ LET r == Head(sqlReplies)
           m == HandleRemoveWordNext(ops[r.p], r)
           n == IF m.op.result = "removed"
                THEN [m EXCEPT !.op.save = Len(ops) + 1] ELSE m
           updatedContent == RemoveMarkFromContent(n.op.captured, n.op.id) IN
       IF n.op.result = "removed"
       THEN /\ content' = updatedContent
            /\ \E isFocused \in BOOLEAN :
                /\ edMarks' = IF isFocused THEN edMarks ELSE updatedContent.marks
                /\ docText' = IF isFocused THEN docText ELSE updatedContent.text
                /\ selection' = IF isFocused THEN selection ELSE 0
            /\ cache' = <<>>
            /\ PageResume(r, n, <<SaveContent(updatedContent)>>)
       ELSE /\ UNCHANGED <<docText, selection, edMarks, content, cache>>
            /\ PageResume(r, n, <<>>)
    /\ UNCHANGED <<fetching, fetchLog, tooltipVars>>

\* The page is open on a document whose text is `text`; with `pre`, the first
\* place is already a vocabulary word.
PageInit(text, pre) ==
    LET marks == [i \in 1..Len(text) |-> IF pre /\ i = 1 THEN 1 ELSE 0]
        first == ValidateVocabWord(text[1]) IN
    /\ db = "opfs"
    /\ durable = SampleDb(TableNames, 0)
    /\ mem = NewDb
    /\ AfterStartup
    /\ UploadIdle
    /\ dbTables = [t \in TableNames |->
            CASE t = "documents" -> {ContentRow(OpenDocument, JSONContent(text, marks))}
              [] t = "words" ->
                    IF pre THEN {VocabWordRow(1, OpenDocument, first.text, first.normalized)}
                    ELSE {}
              [] OTHER -> {}]
    /\ sqliteSequence = [t \in TableNames |->
            IF t = "documents" \/ (t = "words" /\ pre) THEN 1 ELSE 0]
    /\ sqlQueue = <<>>
    /\ sqlReplies = <<>>
    /\ docs = {OpenDocument}
    /\ ops = <<>>
    /\ throws = 0
    /\ docText = text
    /\ selection = 0
    /\ edMarks = marks
    /\ content = JSONContent(text, marks)
    /\ cache = <<>>
    /\ fetching = {}
    /\ fetchLog = <<>>
    /\ hoveredWordId = 0
    /\ tooltipData = <<>>

PageNext ==
    \/ SelectText
    \/ HandleAddWord
    \/ HandleRemoveWord
    \/ EditorOnUpdate
    \/ SqlStatement
    \/ AddWordResume
    \/ SaveContentResume
    \/ RemoveWordResume

\* One selectable text, any candidate.
WordSpecInit == \E t \in Texts : PageInit(<<t>>, FALSE)

\* Adding words only.
WordSpecNext ==
    \/ SelectText
    \/ HandleAddWord
    \/ SqlStatement
    \/ AddWordResume
    \/ SaveContentResume

WordSpec == WordSpecInit /\ [][WordSpecNext]_vars

\* A two-place text whose places normalize to the same headword.
EditorSpecInit == \E pre \in BOOLEAN : PageInit(<<<<"a">>, <<"A">>>>, pre)

EditorSpec == EditorSpecInit /\ [][PageNext]_vars

\* Documents with long texts.  A plain text of `len` characters with spaces at
\* the indexes (from 0) of `spaces` and letters elsewhere.
PlainText(len, spaces) == [i \in 1..len |-> IF (i - 1) \in spaces THEN " " ELSE "a"]

\* The lengths and the indexes of spaces of the texts: around the 140 characters
\* of the snippet and the index 98 of its cut.
TextLengths == {3, 140, 141, 200}
SpaceIndexes == {98, 99, 139, 140, 144, 145}

PlainTexts ==
    {PlainText(len, spaces) : len \in TextLengths, spaces \in SUBSET SpaceIndexes}
        \cup {<<" ", " ">>}

\* The page is open on a document with such a text, in two text nodes: the
\* first character, which may be a vocabulary word, and the rest.
StatsSpecInit ==
    \E text \in PlainTexts, pre \in BOOLEAN :
        /\ pre => text[1] # " "
        /\ PageInit(<<<<text[1]>>, Tail(text)>>, pre)

StatsSpecNext ==
    \/ EditorOnUpdate
    \/ HandleRemoveWord
    \/ SqlStatement
    \/ RemoveWordResume
    \/ SaveContentResume

StatsSpec == StatsSpecInit /\ [][StatsSpecNext]_vars

\* ------------------------------------------------- the dictionary hook
\* The values updateOverrides is called with (`notes`): every call of the
\* session writes a text of its own.
Notes == <<"x", "y", "z">>

\* A call of a function of the hook: its argument (id, patch), the statement or
\* the fetch it awaits (pc), its locals (word, dictEntry), what it returned
\* (result, data).  chain: the caller awaits lookupWord after updateOverrides;
\* captured: the `cache` of the render whose callbacks the caller holds.  hit,
\* fetched, hadEntry, lastUpdate, alone and seen are history: the call was
\* answered from the cache, it fetched from the dictionary, the dictionary entry
\* of its word was in the database when it was made, the last updateOverrides
\* call for its wordId that had completed when it was made (0 for none), no call
\* of the same function for the same wordId was in progress when it was made,
\* and the number of cache invalidations (clearCache calls, updateOverrides
\* calls and returns) before it.
HookOp(kind, id, pc) ==
    [kind |-> kind, id |-> id, pc |-> pc, result |-> "pending", data |-> NoData,
     word |-> VocabWordRow(0, 0, <<>>, <<>>), dictEntry |-> NoEntry, patch |-> Null,
     chain |-> FALSE, chained |-> FALSE, captured |-> <<>>, hit |-> FALSE,
     fetched |-> FALSE, hover |-> FALSE,
     hadEntry |-> \E w \in dbTables["words"], e \in dbTables["dictionary_entries"] :
                    w.id = id /\ e.headwordNorm = w.headwordNorm,
     lastUpdate |-> LET done == {i \in 1..Len(ops) :
                                    /\ ops[i].kind = "updateOverrides"
                                    /\ ops[i].id = id
                                    /\ ops[i].result = "void"} IN
                    IF done = {} THEN 0 ELSE CHOOSE i \in done : \A j \in done : j <= i,
     alone |-> \A i \in 1..Len(ops) :
                    ~(ops[i].kind = kind /\ ops[i].id = id /\ ops[i].pc # "returned"),
     seen |-> Cardinality({i \in 1..Len(ops) : ops[i].kind = "clearCache"})
              + Cardinality({i \in 1..Len(ops) : ops[i].kind = "updateOverrides"})
              + Cardinality({i \in 1..Len(ops) :
                                ops[i].kind = "updateOverrides" /\ ops[i].pc = "returned"})]

\* Calls made from outside the hook so far, and whether one more may be made.
HookCalls ==
    Cardinality({i \in 1..Len(ops) :
                    /\ ops[i].kind \in {"lookup", "updateOverrides", "clearCache"}
                    /\ ~ops[i].chained})

\* Calls that have not returned.
InFlight == Cardinality({i \in 1..Len(ops) : ops[i].pc # "returned"})

MayCall == HookCalls < MaxHookCalls /\ InFlight < MaxInFlight

\* fetchDictionaryEntry: `word.toLowerCase().trim()`
FetchKey(word) == Trim(ToLowerCase(word))

\* (mutant of LookupWordStart: the cache is not consulted)
LookupWordStartNoCache(o, map) ==
    Goto(o, "selectWord", SelectFirst("words", "id", o.id))

\* lookupWord up to its first await, with `map` the cache of its closure: a
\* cached value is returned; otherwise the loading value is put in the cache and
\* the Word row is selected.
LookupWordStart(o, map) ==
    IF o.id \in DOMAIN map
    THEN Done([o EXCEPT !.data = map[o.id], !.hit = TRUE], "data")
    ELSE Goto(o, "selectWord", SelectFirst("words", "id", o.id))

\* (mutant of LookupWordNext: it fetches whether the entry exists or not)
LookupWordNextRefetch(o, r) ==
    IF ~r.ok THEN Done(o, "null")
    ELSE CASE o.pc = "selectWord" ->
                IF r.rows = {} THEN Done(o, "null")
                ELSE LET word == CHOOSE x \in r.rows : TRUE IN
                     Goto([o EXCEPT !.word = word], "selectEntry",
                          SelectFirst("dictionary_entries", "headwordNorm", word.headwordNorm))
           [] o.pc = "selectEntry" ->
                [op |-> [o EXCEPT !.pc = "fetch", !.fetched = TRUE], sql |-> <<>>]
           [] o.pc = "insertEntry" ->
                Goto(o, "selectOverrides", SelectFirst("word_overrides", "wordId", o.id))
           [] o.pc = "selectOverrides" ->
                LET overrides == IF r.rows = {} THEN NoOverride ELSE CHOOSE x \in r.rows : TRUE IN
                Done([o EXCEPT !.data = WordData(o.id, o.word.headword, o.dictEntry,
                                                 overrides, FALSE)],
                     "data")

\* lookupWord resumes with response r.  A statement that throws takes it to the
\* catch (return null).  Without a dictionary entry it awaits the fetch
\* (pc "fetch", no statement).
LookupWordNext(o, r) ==
    IF ~r.ok THEN Done(o, "null")
    ELSE CASE o.pc = "selectWord" ->
                IF r.rows = {} THEN Done(o, "null")
                ELSE LET word == CHOOSE x \in r.rows : TRUE IN
                     Goto([o EXCEPT !.word = word], "selectEntry",
                          SelectFirst("dictionary_entries", "headwordNorm", word.headwordNorm))
           [] o.pc = "selectEntry" ->
                IF r.rows = {} THEN [op |-> [o EXCEPT !.pc = "fetch", !.fetched = TRUE],
                                     sql |-> <<>>]
                ELSE Goto([o EXCEPT !.dictEntry = CHOOSE x \in r.rows : TRUE],
                          "selectOverrides", SelectFirst("word_overrides", "wordId", o.id))
           [] o.pc = "insertEntry" ->
                Goto(o, "selectOverrides", SelectFirst("word_overrides", "wordId", o.id))
           [] o.pc = "selectOverrides" ->
                LET overrides == IF r.rows = {} THEN NoOverride ELSE CHOOSE x \in r.rows : TRUE IN
                Done([o EXCEPT !.data = WordData(o.id, o.word.headword, o.dictEntry,
                                                 overrides, FALSE)],
                     "data")

\* (mutant of LookupWordFetched: a failed fetch rejects the lookup)
LookupWordFetchedOrRejected(o, api) ==
    IF api.found
    THEN Goto([o EXCEPT !.dictEntry = EntryRow(FetchKey(o.word.headwordNorm), api)],
              "insertEntry",
              Insert("dictionary_entries", EntryRow(FetchKey(o.word.headwordNorm), api)))
    ELSE Done(o, "rejected")

\* The fetch of lookupWord resolves with `api`: an entry is inserted and
\* becomes dictEntry; without one the lookup goes on to the overrides.
LookupWordFetched(o, api) ==
    IF api.found
    THEN Goto([o EXCEPT !.dictEntry = EntryRow(FetchKey(o.word.headwordNorm), api)],
              "insertEntry",
              Insert("dictionary_entries", EntryRow(FetchKey(o.word.headwordNorm), api)))
    ELSE Goto(o, "selectOverrides", SelectFirst("word_overrides", "wordId", o.id))

\* The cache after lookupWord went from o to n.op: the loading value when it
\* passed the cache check, the word data when it returns it.
LookupCache(map, o, n) ==
    IF o.pc = "call" /\ ~n.op.hit THEN MapSet(map, o.id, LoadingData(o.id))
    ELSE IF n.op.result = "data" /\ ~n.op.hit THEN MapSet(map, o.id, n.op.data)
    ELSE map

\* (mutant of UpdateOverridesNext: a row is inserted whether one exists or not)
UpdateOverridesNextInsertOnly(o, r) ==
    IF ~r.ok THEN Done(o, "rejected")
    ELSE CASE o.pc = "selectExisting" ->
                Goto(o, "write",
                     Insert("word_overrides", OverrideRow(o.id, OrNull(o.patch), Stamp)))
           [] o.pc = "write" -> Done(o, "void")

\* updateOverrides resumes with response r; it has no catch.  An existing row
\* is updated with the patch and updatedAt, otherwise a row is inserted.
UpdateOverridesNext(o, r) ==
    IF ~r.ok THEN Done(o, "rejected")
    ELSE CASE o.pc = "selectExisting" ->
                IF r.rows # {}
                THEN Goto(o, "write",
                          UpdateRow("word_overrides", "wordId", o.id,
                                    [notes |-> o.patch, updatedAt |-> Stamp]))
                ELSE Goto(o, "write",
                          Insert("word_overrides", OverrideRow(o.id, OrNull(o.patch), Stamp)))
           [] o.pc = "write" -> Done(o, "void")

\* What the hook's variables become when call p continues as n and the calls of
\* `spawn` start.
HookResume(p, n, spawn) ==
    /\ ops' = [ops EXCEPT ![p] = n.op] \o [i \in 1..Len(spawn) |-> spawn[i].op]
    /\ sqlQueue' = sqlQueue
                    \o [i \in 1..Len(n.sql) |-> [p |-> p, q |-> n.sql[i]]]
                    \o [i \in 1..Len(spawn) |->
                            [p |-> Len(ops) + i, q |-> spawn[i].sql[1]]]
    /\ UNCHANGED <<dbTables, sqliteSequence, docs, throws>>
    /\ UNCHANGED <<hostVars, bridgeVars, uploadVars, editorVars>>

\* The `wordData` of the tooltip after lookup call o went on: when the call
\* has returned to handleMouseOver the handler sets its value, null included.
TooltipAfter(o) ==
    IF o.hover /\ o.pc = "returned"
    THEN (IF o.result = "data" THEN <<o.data>> ELSE <<>>)
    ELSE tooltipData

\* lookupWord(wordId), called from a handler of the current render.
LookupCall(wordId, hover) ==
    LET o == [HookOp("lookup", wordId, "call") EXCEPT !.hover = hover]
        n == LookupWordStart(o, cache) IN
    /\ ops' = Append(ops, n.op)
    /\ sqlQueue' = sqlQueue \o [i \in 1..Len(n.sql) |-> [p |-> Len(ops) + 1, q |-> n.sql[i]]]
    /\ cache' = LookupCache(cache, o, n)
    /\ hoveredWordId' = IF hover THEN wordId ELSE hoveredWordId
    /\ tooltipData' = TooltipAfter(n.op)
    /\ UNCHANGED <<fetching, fetchLog, sqlReplies>>
    /\ UNCHANGED <<dbTables, sqliteSequence, docs, throws>>
    /\ UNCHANGED <<hostVars, bridgeVars, uploadVars, editorVars>>

LookupWord == MayCall /\ \E wordId \in LookupIds : LookupCall(wordId, FALSE)

\* handleMouseOver on a vocabulary word of the editor other than the hovered
\* one: `setHoveredWordId(wordId); data = await lookupWord(wordId);
\* setWordData(data)`.
HandleMouseOver ==
    /\ MayCall
    /\ \E wordId \in {edMarks[i] : i \in 1..Len(edMarks)} \ {0, hoveredWordId} :
        LookupCall(wordId, TRUE)

\* The tooltip closes (onOpenChange(false), handleCloseTooltip): both states
\* are set to null.
CloseTooltip ==
    /\ hoveredWordId # 0
    /\ hoveredWordId' = 0
    /\ tooltipData' = <<>>
    /\ UNCHANGED <<cache, fetching, fetchLog>>
    /\ UNCHANGED <<hostVars, bridgeVars, uploadVars, dataVars, editorVars>>

LookupWordResume ==
    /\ sqlReplies # <<>>
    /\ ops[Head(sqlReplies).p].kind = "lookup"
    /\ LET r == Head(sqlReplies)
           o == ops[r.p]
           n == LookupWordNext(o, r) IN
        /\ sqlReplies' = Tail(sqlReplies)
        /\ HookResume(r.p, n, <<>>)
        /\ cache' = LookupCache(cache, o, n)
        /\ fetching' = IF n.op.pc = "fetch" THEN fetching \cup {r.p} ELSE fetching
        /\ fetchLog' = IF n.op.pc = "fetch"
                       THEN Append(fetchLog, FetchKey(n.op.word.headwordNorm))
                       ELSE fetchLog
        /\ tooltipData' = TooltipAfter(n.op)
        /\ UNCHANGED hoveredWordId

\* The remote dictionary answers a fetch.
FetchDone ==
    \E p \in fetching, response \in Responses :
        /\ fetching' = fetching \ {p}
        /\ HookResume(p, LookupWordFetched(ops[p], FetchDictionaryEntry(response)), <<>>)
        /\ UNCHANGED <<cache, fetchLog, sqlReplies, tooltipVars>>

\* updateOverrides(wordId, {notes}), from a save handler (saveChanges,
\* handleSaveOverrides), which then awaits lookupWord(wordId).
UpdateOverrides ==
    /\ MayCall
    /\ \E w \in dbTables["words"] :
        LET o == [HookOp("updateOverrides", w.id, "selectExisting") EXCEPT
                    !.patch = Notes[HookCalls + 1], !.chain = TRUE, !.captured = cache] IN
        /\ ops' = Append(ops, o)
        /\ sqlQueue' = Append(sqlQueue, [p |-> Len(ops) + 1,
                                         q |-> SelectFirst("word_overrides", "wordId", w.id)])
    /\ UNCHANGED <<cache, fetching, fetchLog, sqlReplies, tooltipVars>>
    /\ UNCHANGED <<dbTables, sqliteSequence, docs, throws>>
    /\ UNCHANGED <<hostVars, bridgeVars, uploadVars, editorVars>>

\* When updateOverrides returns, the cache entry is deleted, and the save
\* handler calls the lookupWord it holds, whose cache is the captured one.
UpdateOverridesResume ==
    /\ sqlReplies # <<>>
    /\ ops[Head(sqlReplies).p].kind = "updateOverrides"
    /\ LET r == Head(sqlReplies)
           o == ops[r.p]
           n == UpdateOverridesNext(o, r)
           invalidated == MapDelete(cache, o.id)
           l == [HookOp("lookup", o.id, "call") EXCEPT
                    !.chained = TRUE, !.seen = @ + 1, !.lastUpdate = r.p]
           m == LookupWordStart(l, o.captured) IN
        /\ sqlReplies' = Tail(sqlReplies)
        /\ IF n.op.result = "void" /\ o.chain
           THEN /\ ops' = [ops EXCEPT ![r.p] = n.op] \o <<m.op>>
                /\ sqlQueue' = sqlQueue
                                \o [i \in 1..Len(m.sql) |-> [p |-> Len(ops) + 1, q |-> m.sql[i]]]
                /\ cache' = LookupCache(invalidated, l, m)
                /\ UNCHANGED <<dbTables, sqliteSequence, docs, throws>>
                /\ UNCHANGED <<hostVars, bridgeVars, uploadVars, editorVars>>
           ELSE /\ HookResume(r.p, n, <<>>)
                /\ cache' = IF n.op.result = "void" THEN invalidated ELSE cache
    /\ UNCHANGED <<fetching, fetchLog, tooltipVars>>

\* clearCache()
ClearCache ==
    /\ HookCalls < MaxHookCalls
    /\ cache # <<>>
    /\ cache' = <<>>
    /\ ops' = Append(ops, [HookOp("clearCache", 0, "returned") EXCEPT !.result = "void"])
    /\ UNCHANGED <<fetching, fetchLog, sqlQueue, sqlReplies, tooltipVars>>
    /\ UNCHANGED <<dbTables, sqliteSequence, docs, throws>>
    /\ UNCHANGED <<hostVars, bridgeVars, uploadVars, editorVars>>

\* The tables of the hook.
HookTables == TableNames \cup {"dictionary_entries"}

\* The page is open on a database with two words of the same normalized
\* headword, with or without the dictionary entry of the headword (`entry`);
\* the first word has an override, the second has none; nothing was looked up
\* yet.
LookupSpecInit ==
    \E entry \in BOOLEAN :
      LET over == TRUE IN
        /\ db = "opfs"
        /\ durable = SampleDb(TableNames, 0)
        /\ mem = NewDb
        /\ AfterStartup
        /\ UploadIdle
        /\ dbTables = [t \in HookTables |->
                CASE t = "documents" -> {ContentRow(OpenDocument,
                                                    JSONContent(<<<<"a">>, <<"A">>>>, <<1, 2>>))}
                  [] t = "words" -> {VocabWordRow(1, OpenDocument, <<"a">>, <<"a">>),
                                     VocabWordRow(2, OpenDocument, <<"A">>, <<"a">>)}
                  [] t = "dictionary_entries" ->
                        IF entry THEN {[EntryRow(<<"a">>, ApiEntry(FALSE)) EXCEPT !.id = 1]}
                        ELSE {}
                  [] t = "word_overrides" ->
                        IF over THEN {[OverrideRow(1, "w", 0) EXCEPT !.id = 1]} ELSE {}
                  [] OTHER -> {}]
        /\ sqliteSequence = [t \in HookTables |->
                CASE t = "documents" -> 1
                  [] t = "words" -> 2
                  [] t = "dictionary_entries" -> IF entry THEN 1 ELSE 0
                  [] t = "word_overrides" -> IF over THEN 1 ELSE 0
                  [] OTHER -> 0]
        /\ sqlQueue = <<>>
        /\ sqlReplies = <<>>
        /\ docs = {OpenDocument}
        /\ ops = <<>>
        /\ throws = 0
        /\ docText = <<<<"a">>, <<"A">>>>
        /\ selection = 0
        /\ edMarks = <<1, 2>>
        /\ content = JSONContent(<<<<"a">>, <<"A">>>>, <<1, 2>>)
        /\ cache = <<>>
        /\ fetching = {}
        /\ fetchLog = <<>>
        /\ hoveredWordId = 0
        /\ tooltipData = <<>>

LookupSpecNext ==
    \/ LookupWord
    \/ UpdateOverrides
    \/ ClearCache
    \/ SqlStatement
    \/ FetchDone
    \/ LookupWordResume
    \/ UpdateOverridesResume

LookupSpec == LookupSpecInit /\ [][LookupSpecNext]_vars

\* The page with the hook, the removal of words and the deletion of the
\* document; a function is called when the calls before it have returned.

\* Calls of one run of the page with the hook (the saves and lookups that
\* handlers start included).
MaxEntryOps == 4

NoCallInProgress ==
    /\ Len(ops) < MaxEntryOps
    /\ \A i \in 1..Len(ops) : ops[i].pc = "returned"

EntrySpecNext ==
    \/ NoCallInProgress /\ LookupWord
    \/ NoCallInProgress /\ UpdateOverrides
    \/ NoCallInProgress /\ ClearCache
    \/ NoCallInProgress /\ HandleRemoveWord
    \/ NoCallInProgress /\ DeleteDocument
    \/ SqlStatement
    \/ FetchDone
    \/ LookupWordResume
    \/ UpdateOverridesResume
    \/ RemoveWordResume
    \/ SaveContentResume
    \/ DeleteDocumentResume

EntrySpec == LookupSpecInit /\ [][EntrySpecNext]_vars

\* ------------------------------------------------------------------ claims
NotInitErrors == {NotInitialized, "SQLite not initialized"}

LogEntries == {hostLog[i] : i \in DOMAIN hostLog}

\* C4 (as stated): after the Host has handled a close, every exec, query, export
\* and import request that arrives before an init has been handled is answered
\* with a 'not initialized' failure and leaves the Host without an open handle.
C4_AfterCloseAllFail ==
    \A e \in LogEntries :
        (e.afterClose /\ e.type \in {"exec", "query", "export", "import"}) =>
            (~e.success /\ e.error \in NotInitErrors /\ ~e.dbOpen)

\* C4 (amended): after the Host has handled a close, every exec, query and export
\* request that arrives before an init or an import has been handled is answered
\* with the 'Database not initialized' failure and leaves the Host without an open
\* handle; and the close itself leaves no open handle.
C4_AfterCloseNotInitialized ==
    \A e \in LogEntries :
        /\ (e.afterCloseNoOpen /\ e.type \in {"exec", "query", "export"}) =>
              (~e.success /\ e.error = NotInitialized /\ ~e.dbOpen)
        /\ e.type = "close" => ~e.dbOpen

\* C4 witness: a handle was open, a close was handled, and an exec that arrived
\* after it has been answered.
C4_Witness ==
    \E i, j, k \in DOMAIN hostLog :
        /\ i < j /\ j < k
        /\ hostLog[i].type = "init" /\ hostLog[i].dbOpen
        /\ hostLog[j].type = "close"
        /\ hostLog[k].type = "exec" /\ hostLog[k].afterCloseNoOpen

\* C5: every request whose handler has run to its end has exactly one response in
\* the outgoing queue, echoing its id and type, a success or a failure with an
\* error message; a suspended handler has none yet; no other response exists.
C5_OneResponsePerRequest ==
    /\ \A i \in DOMAIN received :
          LET m == received[i]
              rs == {j \in DOMAIN outbox : outbox[j].id = m.id} IN
          IF \E k \in inflight : k.id = m.id
          THEN rs = {}
          ELSE /\ Cardinality(rs) = 1
               /\ \A j \in rs : /\ outbox[j].type = m.type
                                /\ outbox[j].success \/ outbox[j].error # ""
    /\ \A j \in DOMAIN outbox : \E i \in DOMAIN received : received[i].id = outbox[j].id

\* C5 witness: a request failed and a request received later was answered with
\* success.
C5_Witness ==
    \E i, j \in DOMAIN outbox :
        /\ ~outbox[i].success /\ outbox[i].type \in {"exec", "import"}
        /\ outbox[j].success /\ outbox[j].id > outbox[i].id

\* C6 (as stated): the handling of a request starts only when the handling of
\* every request received before it is complete: a suspended handler is that of
\* the request received last.
C6_OneHandlerAtATime ==
    \A k \in inflight : k.id = received[Len(received)].id

\* C1: for the initSqlite() calls of one epoch (no closeDatabase() between them)
\* exactly one worker is created and exactly one `init` request is sent, every
\* caller holds the promise of that one request, and that promise settles with
\* the Host's answer to it.
C1_SingleInitPerEpoch ==
    \A e \in 0..epoch :
        LET cs == {i \in DOMAIN initCallers : initCallers[i].epoch = e}
            inits == {n \in DOMAIN calls : calls[n].kind = "init" /\ calls[n].epoch = e}
            ws == {w \in DOMAIN workerEpochs : workerEpochs[w] = e} IN
        cs # {} =>
            /\ Cardinality(ws) = 1
            /\ Cardinality(inits) = 1
            /\ \A n \in inits :
                  /\ calls[n].id # 0
                  /\ \A i \in cs : initCallers[i].promise = n
                  /\ calls[n].state # "pending" =>
                        \E j \in DOMAIN hostLog :
                            /\ hostLog[j].n = n /\ hostLog[j].type = "init"
                            /\ hostLog[j].success = (calls[n].state = "resolved")

\* C1 witness: three initSqlite() calls of one epoch, and the promise they share
\* has resolved.
C1_Witness ==
    \E i, j, k \in DOMAIN initCallers :
        /\ i < j /\ j < k
        /\ initCallers[i].epoch = initCallers[k].epoch
        /\ calls[initCallers[i].promise].state = "resolved"

C2_State ==
    /\ \A i, j \in DOMAIN issued : i < j => issued[i] < issued[j]
    /\ \A n \in DOMAIN calls :
          (calls[n].id # 0 /\ calls[n].state # "pending") =>
              /\ calls[n].by = n
              /\ \E j \in DOMAIN delivered :
                    /\ delivered[j].n = n /\ delivered[j].id = calls[n].id
                    /\ delivered[j].success = (calls[n].state = "resolved")
                    /\ ~delivered[j].success => calls[n].error = delivered[j].error
    /\ \A id \in DOMAIN pendingRequests :
          /\ calls[pendingRequests[id]].id = id
          /\ calls[pendingRequests[id]].state = "pending"

C2_Step ==
    /\ \A n \in DOMAIN calls : calls[n].state # "pending" => calls'[n] = calls[n]
    /\ delivered' # delivered =>
          LET r == delivered'[Len(delivered')] IN
          IF r.id \in DOMAIN pendingRequests
          THEN /\ DOMAIN pendingRequests' = DOMAIN pendingRequests \ {r.id}
               /\ \A i \in DOMAIN pendingRequests' : pendingRequests'[i] = pendingRequests[i]
               /\ \A n \in DOMAIN calls :
                     n # pendingRequests[r.id] => calls'[n] = calls[n]
               /\ calls'[pendingRequests[r.id]].state =
                     (IF r.success THEN "resolved" ELSE "rejected")
          ELSE pendingRequests' = pendingRequests /\ calls' = calls

\* C2: the ids getNextId() issues are strictly increasing (never reused, also
\* across closeDatabase/initSqlite cycles); a settled promise was settled by the
\* response to its own request, resolved on success and rejected with the error
\* on failure, and never changes again; a delivered response with id i removes
\* entry i alone and touches no other promise, and one whose id is not pending
\* changes no promise and no entry.
C2_IdsAndCorrelation == [](C2_State) /\ [][C2_Step]_vars

\* C2 witness: a promise was resolved by its response, the response to a `close`
\* (an id that is in no pending entry) was delivered, and a second worker was
\* given an id after the closeDatabase().
C2_Witness ==
    /\ \E n \in DOMAIN calls : calls[n].state = "resolved"
    /\ \E j \in DOMAIN delivered : delivered[j].type = "close"
    /\ worker = 2
    /\ Len(issued) = 3

\* C3 (as stated): an execSql, querySql, exportDatabase or importDatabase call
\* made before the promise of initSqlite() has resolved is never executed
\* successfully by the Host and its promise is never resolved.
C3_EarlyCallsRejected ==
    \A n \in DOMAIN calls :
        (calls[n].kind \in {"exec", "query", "export", "import"} /\ ~calls[n].initDone) =>
            /\ calls[n].state # "resolved"
            /\ ~\E j \in DOMAIN hostLog : hostLog[j].n = n /\ hostLog[j].success

ImportSucceeded ==
    \E j \in DOMAIN hostLog : hostLog[j].type = "import" /\ hostLog[j].success

\* C7: when the export of a database is imported into a fresh instance (one
\* that holds no rows) and the import succeeds, the documents, words,
\* word_overrides and document_stats rows the Host serves are those of the
\* source, field for field, on the durable path and on the in-memory path.
C7_RoundTrip ==
    (ImportSucceeded /\ upFresh /\ upFile = Serialize(upSource)) =>
        /\ db # "null"
        /\ \A t \in TableNames : RowsOf(Content, t) = RowsOf(upSource, t)

\* C7 witness: a source with rows in all four tables was imported into a fresh
\* instance along the durable path.
C7_Witness ==
    /\ ImportSucceeded /\ upFresh /\ upFile = Serialize(upSource)
    /\ db = "opfs"
    /\ \A t \in TableNames : RowsOf(upSource, t) # {}

\* C8: uploadDatabase returns true exactly when the Host's import succeeded and
\* the schema of the restored database has a documents table; it returns false
\* otherwise.
C8_UploadResult ==
    upPc = "done" =>
        (upResult = "true") =
            (ImportSucceeded /\ db # "null" /\ Content.ok
                /\ "documents" \in DOMAIN Content.tabs)

\* C8 witness: the import succeeded, the restored schema has no documents table
\* and uploadDatabase returned false.
C8_Witness ==
    /\ upPc = "done" /\ upResult = "false"
    /\ ImportSucceeded /\ Content.ok /\ "documents" \notin DOMAIN Content.tabs

\* C9 (as stated): when uploadDatabase returns false after an import attempt,
\* the rows the Host serves are those it served before the import was requested.
C9_FailedUploadKeepsData ==
    (upPc = "done" /\ upResult = "false" /\ upImport # 0) =>
        /\ db # "null"
        /\ \A t \in TableNames : RowsOf(Content, t) = RowsOf(upPre, t)

\* The rows that do not belong to the document of call o.
OtherRows(tabs, o) ==
    LET mine == o.owned \cup {w.id : w \in {x \in tabs["words"] : x.documentId = o.id}} IN
    [t \in TableNames |->
        CASE t = "documents" -> {r \in tabs[t] : r.id # o.id}
          [] t = "words" -> {r \in tabs[t] : r.documentId # o.id}
          [] t = "word_overrides" -> {r \in tabs[t] : r.wordId \notin mine}
          [] t = "document_stats" -> {r \in tabs[t] : r.documentId # o.id}]

\* A deleteDocument that returned the deleted document left no row of it.
C10_State ==
    \A p \in 1..Len(ops) :
        (ops[p].kind = "delete" /\ ops[p].result = "deleted") => ops[p].left = {}

\* A statement of deleteDocument leaves the rows of other documents as they were.
C10_Step ==
    (/\ sqlQueue # <<>>
     /\ sqlQueue' = Tail(sqlQueue)
     /\ ops[Head(sqlQueue).p].kind = "delete")
        => OtherRows(dbTables', ops[Head(sqlQueue).p]) = OtherRows(dbTables, ops[Head(sqlQueue).p])

\* C10: when deleteDocument(id) has returned the deleted document (success), no
\* table holds a Document row with that id, a Word row with documentId = id, a
\* WordOverride row of one of those words or a DocumentStats row of id; and no
\* statement deleteDocument(id) has the Host execute changes a row that belongs
\* to another document.
C10_DeleteCascade == [](C10_State) /\ [][C10_Step]_vars

\* A deleteDocument of a document that had rows in all four tables has returned
\* the deleted document while another document still has rows in all four.
C10_Witness ==
    \E p \in 1..Len(ops) :
        /\ ops[p].kind = "delete"
        /\ ops[p].result = "deleted"
        /\ ops[p].had = TableNames
        /\ \E d \in DocIds \ {ops[p].id} :
            Left(dbTables, [ops[p] EXCEPT !.id = d, !.owned = {}]) = TableNames

\* The content saved for the open document (documents.content_json).
SavedContent == (CHOOSE d \in dbTables["documents"] : d.id = OpenDocument).contentJson.marks

\* White space between two characters that are not white space.
InternalWhitespace(s) ==
    \E i, j, k \in 1..Len(s) : i < j /\ j < k /\ ~IsSpace(s[i]) /\ IsSpace(s[j]) /\ ~IsSpace(s[k])

\* Nothing of the candidate at place p was written: every add-to-vocabulary on
\* it returned without a statement (and validateSelection refuses it too), no
\* Word row has its headword, and the place has no mark in the editor, in
\* `content` or in the saved content.
NothingWritten(p) ==
    /\ \A i \in 1..Len(ops) :
        ops[i].kind = "addWord" /\ ops[i].place = p =>
            ops[i].result = "rejected" /\ ~ValidateSelection(ops[i].raw).ok
    /\ \A w \in dbTables["words"] : w.headword # Trim(docText[p])
    /\ edMarks[p] = 0 /\ content.marks[p] = 0 /\ SavedContent[p] = 0

C12_Idempotent ==
    /\ \A p \in 1..Len(docText) :
        Normalize(Normalize(docText[p])) = Normalize(docText[p])
    /\ \A i \in 1..Len(ops) :
        ops[i].kind = "addWord" /\ ops[i].result # "rejected" =>
            /\ ops[i].normalized = Normalize(ops[i].raw)
            /\ ops[i].normalized = ValidateSelection(ops[i].raw).normalized
            /\ ops[i].normalized # <<>>
            /\ ~HasWhitespace(ops[i].normalized)
    /\ \A w \in dbTables["words"] :
        /\ w.headwordNorm # <<>>
        /\ ~HasWhitespace(w.headwordNorm)
        /\ Normalize(w.headwordNorm) = w.headwordNorm

\* A candidate that trimming changes and whose headword normalization changes
\* was accepted, and its Word row is in the database.
C12_Witness ==
    \E i \in 1..Len(ops) :
        /\ ops[i].kind = "addWord" /\ ops[i].result = "marked"
        /\ ops[i].raw # ops[i].text
        /\ ops[i].text # ops[i].normalized
        /\ \E w \in dbTables["words"] :
            w.headword = ops[i].text /\ w.headwordNorm = ops[i].normalized

\* No call of the page is in progress: every handler and every save returned.
PageQuiet ==
    /\ sqlQueue = <<>>
    /\ sqlReplies = <<>>
    /\ \A i \in 1..Len(ops) : ops[i].pc = "returned"

\* C13: when no add-word or remove-word action (nor a save one of them started)
\* is in progress, every Word row has a vocabulary mark carrying its id in the
\* saved content of its document, and a completed remove-word leaves neither
\* the row nor a mark with its id.
C13_RowsHaveMarks ==
    PageQuiet =>
        /\ \A w \in dbTables["words"] :
            \E p \in 1..Len(SavedContent) : SavedContent[p] = w.id
        /\ \A i \in 1..Len(ops) :
            ops[i].kind = "removeWord" /\ ops[i].result = "removed" =>
                /\ \A w \in dbTables["words"] : w.id # ops[i].id
                /\ \A p \in 1..Len(SavedContent) : SavedContent[p] # ops[i].id

\* The calls of lookupWord that returned.
Lookups == {i \in 1..Len(ops) : ops[i].kind = "lookup" /\ ops[i].pc = "returned"}

\* C14: every lookupWord(wordId) for a wordId without a Word row returns null,
\* never a loading value, on the first call and on every repeated call of the
\* session.
C14_MissingWordReturnsNull ==
    \A i \in Lookups :
        (\A w \in dbTables["words"] : w.id # ops[i].id) =>
            ops[i].result = "null" /\ ~ops[i].data.isLoading

\* Two calls of lookupWord for one wordId with no clearCache call and no
\* updateOverrides call or return between them.
SameCacheEpoch(i, j) ==
    /\ i < j
    /\ ops[i].kind = "lookup" /\ ops[j].kind = "lookup"
    /\ ops[i].id = ops[j].id
    /\ ops[i].seen = ops[j].seen

FieldsOf(d, e) ==
    /\ d.phonetic = OrNull(e.phonetic)
    /\ d.audioUrl = OrNull(e.audioUrl)
    /\ d.partOfSpeech = OrNull(e.partOfSpeech)
    /\ d.definition = OrNull(e.definition)
    /\ d.synonyms = Parse(e.synonyms)

\* C16: there is at most one DictionaryEntry row per headwordNorm, and a lookup
\* made when the entry of its word's headword is already persisted (by a lookup
\* of this or of another wordId) does not fetch, adds no row, and takes its
\* dictionary fields from that row.
C16_OneEntryPerHeadword ==
    /\ \A e1, e2 \in dbTables["dictionary_entries"] :
        e1.headwordNorm = e2.headwordNorm => e1 = e2
    /\ \A i \in Lookups :
        ops[i].hadEntry /\ ~ops[i].hit =>
            /\ ~ops[i].fetched
            /\ ops[i].result = "data" =>
                \E e \in dbTables["dictionary_entries"] :
                    /\ e.headwordNorm = ops[i].word.headwordNorm
                    /\ e.id # 0
                    /\ FieldsOf(ops[i].data, e)

\* A lookup of one word fetched the entry and persisted it, and a later lookup
\* of another word with the same normalized headword returned its fields
\* without a fetch.
C16_Witness ==
    \E i, j \in Lookups :
        /\ ops[i].id # ops[j].id
        /\ ops[i].fetched /\ ops[i].result = "data" /\ ops[i].data.definition = "def"
        /\ ops[j].hadEntry /\ ~ops[j].hit /\ ops[j].result = "data"
        /\ ops[j].data.definition = "def"
        /\ Cardinality(dbTables["dictionary_entries"]) = 1
        /\ Len(fetchLog) = 1

\* The lookups whose fetch failed and that returned.
FailedFetches == {i \in Lookups : ops[i].fetched /\ ops[i].dictEntry = NoEntry}

\* C17: a lookup whose fetch for a headword without DictionaryEntry failed does
\* not reject; unless a statement of the database threw, it returns the word
\* data with null definition, phonetic, audio and part of speech and an empty
\* synonym list.  While no fetch succeeded no DictionaryEntry row is written,
\* and every lookup that passes the cache then (after clearCache) fetches
\* again.
C17_FailedFetchDegrades ==
    /\ \A i \in FailedFetches :
        /\ ops[i].result # "rejected"
        /\ throws = 0 => ops[i].result = "data"
        /\ ops[i].result = "data" =>
            /\ ops[i].data = WordData(ops[i].id, ops[i].word.headword, NoEntry,
                                      [NoOverride EXCEPT !.notes = ops[i].data.notes], FALSE)
            /\ ops[i].data.definition = Null /\ ops[i].data.phonetic = Null
            /\ ops[i].data.audioUrl = Null /\ ops[i].data.partOfSpeech = Null
            /\ ops[i].data.synonyms = <<>>
    /\ (/\ \E i \in 1..Len(ops) : ops[i].fetched
        /\ \A i \in 1..Len(ops) : ops[i].fetched => ops[i].dictEntry = NoEntry)
        => /\ dbTables["dictionary_entries"] = {}
           /\ \A j \in Lookups : ~ops[j].hit /\ ops[j].result = "data" => ops[j].fetched

\* A lookup's fetch failed and it returned the entry-less word data; the cache
\* was cleared; a second lookup of the word fetched again.
C17_Witness ==
    \E i, j \in FailedFetches, k \in 1..Len(ops) :
        /\ i < k /\ k < j
        /\ ops[k].kind = "clearCache"
        /\ ops[i].id = ops[j].id
        /\ ops[i].result = "data" /\ ops[j].result = "data"
        /\ ops[i].data.definition = Null
        /\ fetchLog = <<ops[i].word.headwordNorm, ops[i].word.headwordNorm>>
        /\ dbTables["dictionary_entries"] = {}

\* The calls of updateOverrides for wordId w, and those that completed.
Updates(w) == {i \in 1..Len(ops) : ops[i].kind = "updateOverrides" /\ ops[i].id = w}

Completed(w) == {i \in Updates(w) : ops[i].result = "void"}

OverridesOf(w) == {r \in dbTables["word_overrides"] : r.wordId = w}

\* C18: when every updateOverrides call for a word was issued after the one
\* before it had completed, the word never has more than one override row; once
\* a call completed it has exactly one, the row the first write created (or the
\* one that was there), and when no call is in progress the row holds the values
\* and the updatedAt stamp of the last completed call.
C18_OneOverrideRow ==
    \A w \in {x.id : x \in dbTables["words"]} :
        (\A i \in Updates(w) : ops[i].alone) =>
            /\ Cardinality(OverridesOf(w)) <= 1
            /\ \A r \in OverridesOf(w) : r.id = w
            /\ Completed(w) # {} => Cardinality(OverridesOf(w)) = 1
            /\ \A i \in Completed(w) :
                (\A j \in Updates(w) : j <= i \/ ops[j].result = "rejected") =>
                    \A r \in OverridesOf(w) :
                        r.notes = ops[i].patch /\ r.updatedAt >= i

\* updateOverrides created the override row of a word that had none, and a
\* second call, made after the first completed, updated that row.
C18_Witness ==
    \E w \in {x.id : x \in dbTables["words"]} :
        \E i, j \in Completed(w) :
            /\ i < j
            /\ \A k \in Updates(w) : ops[k].alone
            /\ \E r \in OverridesOf(w) :
                /\ OverridesOf(w) = {r}
                /\ r.id > 1
                /\ r.notes = ops[j].patch
                /\ r.updatedAt >= j

\* C19: a lookupWord(wordId) made once updateOverrides(wordId, patch) has
\* completed (the first of them is the lookup the save handler awaits right
\* after it) returns the override values that call wrote, never values read
\* before the update, as long as no later updateOverrides call for the word was
\* made.
C19_LookupAfterUpdate ==
    \A j \in Lookups :
        LET i == ops[j].lastUpdate IN
        (/\ i # 0
         /\ ops[j].result = "data"
         /\ \A k \in Updates(ops[j].id) : k <= i)
            => ops[j].data.notes = OrNull(ops[i].patch) /\ ~ops[j].data.isLoading

\* The lookup a save handler awaits after updateOverrides returned the word
\* data cached before the update.
StaleAfterSave ==
    \E j \in Lookups :
        /\ ops[j].chained /\ ops[j].hit /\ ~ops[j].data.isLoading
        /\ ops[j].data.notes # OrNull(ops[ops[j].lastUpdate].patch)
        /\ \E r \in OverridesOf(ops[j].id) : r.notes = ops[ops[j].lastUpdate].patch

\* What lookupWord(wordId) returns against the rows `tabs` when the cache is
\* empty: null without a Word row; otherwise the word data built from the
\* entry of the headword, or from what the remote dictionary answers when there
\* is none, and from the first override of the word.
Uncached(tabs, wordId) ==
    LET ws == {w \in tabs["words"] : w.id = wordId}
        word == CHOOSE w \in ws : TRUE
        es == {e \in tabs["dictionary_entries"] : e.headwordNorm = word.headwordNorm}
        os == {r \in tabs["word_overrides"] : r.wordId = wordId}
        overrides == IF os = {} THEN NoOverride
                     ELSE CHOOSE r \in os : \A x \in os : r.id <= x.id
        entries == IF es # {} THEN es
                   ELSE {LET api == FetchDictionaryEntry(response) IN
                         IF api.found THEN EntryRow(FetchKey(word.headwordNorm), api)
                         ELSE NoEntry : response \in Responses} IN
    IF ws = {} THEN {[result |-> "null", data |-> NoData]}
    ELSE {[result |-> "data",
           data |-> WordData(wordId, word.headword, e, overrides, FALSE)] : e \in entries}

C20_Step ==
    \A j \in 1..Len(ops') :
        (j > Len(ops) /\ ops'[j].kind = "lookup" /\ ops'[j].hit) =>
            [result |-> ops'[j].result, data |-> ops'[j].data]
                \in Uncached(dbTables', ops'[j].id)

\* C20: the cache never changes returned data: whenever lookupWord is answered
\* from the cache, what it returns is what the call would return with an empty
\* cache against the rows persisted at that moment.
C20_CacheTransparent == [][C20_Step]_vars

\* The save calls (saveContent with the statistics it triggers).
Saves == {i \in 1..Len(ops) : ops[i].kind = "saveContent"}

\* The DocumentStats rows of document d.
StatsOf(d) == {r \in dbTables["document_stats"] : r.documentId = d}

\* The number of maximal runs of non-whitespace characters of a text.
NonWhitespaceRuns(text) ==
    Cardinality({i \in 1..Len(text) :
                    text[i] # " " /\ (i = 1 \/ text[i - 1] = " ")})

\* The snippet of a text as the specification words it: the text when it has at
\* most 140 characters; otherwise the first 140 characters, cut back to the
\* last space of that window when its index is greater than 98, and an ellipsis.
SnippetRule(text) ==
    IF Len(text) <= 140 THEN text
    ELSE LET late == {i \in 99..139 : text[i + 1] = " "} IN
         IF late = {} THEN SubSeq(text, 1, 140) \o <<Ellipsis>>
         ELSE SubSeq(text, 1, CHOOSE i \in late : \A j \in late : j <= i) \o <<Ellipsis>>

\* A later save has written its statistics, or may have.
Overwritten(i) ==
    \E j \in Saves : j > i /\ (ops[j].pc = "upsert" \/ ops[j].stats = "written")

\* C21: a document never has two DocumentStats rows; once saveContent(c) and
\* its statistics have completed without error the document has exactly one
\* row, which (until a later save writes its own) has the number of
\* non-whitespace runs of the plain text of c as wordCount and the snippet of
\* that text as snippet, and whose vocabCount, when nothing else is in
\* progress, is the number of Word rows of the document.
C21_StatsOfSavedContent ==
    /\ Cardinality(StatsOf(OpenDocument)) <= 1
    /\ \A i \in Saves :
        (ops[i].result = "saved" /\ ops[i].stats = "written") =>
            LET plain == ExtractPlainText(ops[i].captured) IN
            /\ Cardinality(StatsOf(ops[i].id)) = 1
            /\ \A r \in StatsOf(ops[i].id) :
                /\ ~Overwritten(i) =>
                    /\ r.wordCount = NonWhitespaceRuns(plain)
                    /\ r.snippet = SnippetRule(plain)
                /\ (PageQuiet /\ i = Len(ops)) =>
                    r.vocabCount =
                        Cardinality({w \in dbTables["words"] : w.documentId = ops[i].id})

\* Two saves have written statistics one after the other, the last for a text
\* longer than a snippet in a document with a vocabulary word.
C21_Witness ==
    /\ PageQuiet
    /\ \E i, j \in Saves :
        /\ i < j /\ j = Len(ops)
        /\ ops[i].stats = "written" /\ ops[j].stats = "written"
        /\ ops[i].captured # ops[j].captured
        /\ Len(ExtractPlainText(ops[j].captured)) > SnippetMaxLen
        /\ \E r \in StatsOf(OpenDocument) : r.vocabCount = 1 /\ r.wordCount > 1

\* The content the Document row of the open document holds.
SavedJson == (CHOOSE d \in dbTables["documents"] : d.id = OpenDocument).contentJson

\* The update of save i has been applied and not undone: the row holds the
\* content of this save or of a later one.
Applied(i) == \E j \in Saves : j >= i /\ SavedJson = ops[j].captured

\* C22: when the count query or the upsert of the statistics fails, the save
\* still returns normally (updateDocumentStats does not reject, the save is not
\* reported as failed) and its content stays in the Document row.
C22_StatsFailureSwallowed ==
    \A i \in Saves :
        /\ ops[i].pc \in {"count", "upsert"} => Applied(i)
        /\ ops[i].stats = "failed" =>
            /\ ops[i].pc = "returned"
            /\ ops[i].result = "saved"
            /\ Applied(i)

\* The statistics of the only save failed, the content is saved, and the
\* document has no statistics row.
C22_Witness ==
    /\ PageQuiet
    /\ \E i \in Saves :
        /\ Saves = {i}
        /\ ops[i].stats = "failed"
        /\ SavedJson = ops[i].captured
        /\ StatsOf(OpenDocument) = {}

\* The texts of a state: the text of the editor, with and without the
\* surrounding whitespace, and the plain texts of the contents saved.
TextsOfState ==
    {Join(docText), ExtractPlainText(EditorContent)}
        \cup {ExtractPlainText(ops[i].captured) : i \in Saves}

\* C23: computeSnippet returns a text of at most 140 characters unchanged;
\* of a longer text it returns the first 140 characters, cut back to the last
\* space of that window when the index of that space is greater than 98, and
\* one ellipsis character after them; no snippet has more than 141 characters.
C23_ComputeSnippet ==
    /\ \A text \in TextsOfState :
        LET snippet == ComputeSnippet(text) IN
        /\ snippet = SnippetRule(text)
        /\ Len(text) <= 140 => snippet = text
        /\ Len(text) > 140 =>
            /\ Len(snippet) \in 100..141
            /\ snippet[Len(snippet)] = Ellipsis
            /\ SubSeq(snippet, 1, Len(snippet) - 1) = SubSeq(text, 1, Len(snippet) - 1)
    /\ \A r \in dbTables["document_stats"] : Len(r.snippet) <= 141

\* A save has written the snippet of a text longer than 140 characters whose
\* window has a space at index 99 and one at index 139: the snippet is the
\* first 139 characters and the ellipsis.
C23_Witness ==
    \E i \in Saves :
        LET text == ExtractPlainText(ops[i].captured) IN
        /\ ops[i].stats = "written"
        /\ ~Overwritten(i)
        /\ Len(text) > SnippetMaxLen
        /\ text[100] = " " /\ text[140] = " "
        /\ \E r \in StatsOf(OpenDocument) :
            r.snippet = SubSeq(text, 1, 139) \o <<Ellipsis>>

\* A text longer than 140 characters whose only space in the window is at
\* index 98 is cut at 140 characters.
SnippetHardCutReached ==
    \E i \in Saves :
        LET text == ExtractPlainText(ops[i].captured) IN
        /\ ops[i].stats = "written"
        /\ ~Overwritten(i)
        /\ Len(text) > SnippetMaxLen
        /\ text[99] = " " /\ \A k \in 100..140 : text[k] # " "
        /\ \E r \in StatsOf(OpenDocument) :
            r.snippet = SubSeq(text, 1, SnippetMaxLen) \o <<Ellipsis>>

\* The saves whose statistics are in the table, of a text of 200 characters
\* with a space at position 145 (counted from 1 or from 0).
SavesOfC24 ==
    {i \in Saves :
        /\ ops[i].stats = "written"
        /\ ~Overwritten(i)
        /\ Len(ExtractPlainText(ops[i].captured)) = 200
        /\ \/ ExtractPlainText(ops[i].captured)[145] = " "
           \/ ExtractPlainText(ops[i].captured)[146] = " "}

\* C24 as stated: the snippet of a text of 200 characters with a space at
\* position 145 is the text up to that position and an ellipsis.
C24_CutAtPosition145 ==
    \A i \in SavesOfC24 :
        LET text == ExtractPlainText(ops[i].captured) IN
        \A r \in StatsOf(OpenDocument) :
            r.snippet \in {SubSeq(text, 1, k) \o <<Ellipsis>> : k \in 144..146}

\* C24: a space at position 145 of a text of 200 characters is outside the
\* window of 140 characters and has no effect: the snippet is the first 140
\* characters, cut back to the last space among them when the index of that
\* space is greater than 98, and an ellipsis; without such a space it is the
\* first 140 characters and the ellipsis.
C24_CutInsideWindow ==
    \A i \in SavesOfC24 :
        LET text == ExtractPlainText(ops[i].captured)
            beyond == [k \in 1..Len(text) |-> IF k > 140 THEN "a" ELSE text[k]] IN
        \A r \in StatsOf(OpenDocument) :
            /\ r.snippet = SnippetRule(text)
            /\ r.snippet = SnippetRule(beyond)
            /\ Len(r.snippet) <= 141
            /\ (\A k \in 100..140 : text[k] # " ") =>
                    r.snippet = SubSeq(text, 1, 140) \o <<Ellipsis>>

\* The statistics of a text of 200 characters whose only space is at index 145
\* are written: the snippet is the first 140 characters and the ellipsis.
C24_Witness ==
    \E i \in SavesOfC24 :
        LET text == ExtractPlainText(ops[i].captured) IN
        /\ \A k \in 1..200 : (text[k] = " ") <=> (k = 146)
        /\ \E r \in StatsOf(OpenDocument) :
            r.snippet = SubSeq(text, 1, 140) \o <<Ellipsis>>

\* C26: no word ever has more than one override row, also when two
\* updateOverrides calls for it are in progress together.
C26_AtMostOneOverrideRow ==
    \A w \in WordIds : Cardinality(OverridesOf(w)) <= 1

\* The calls of handleAddWord that inserted a Word row.
Adds == {i \in 1..Len(ops) : ops[i].kind = "addWord" /\ ops[i].inserted # 0}

\* C27: when one add-to-vocabulary call alone has inserted a Word row (no other
\* call inserts), the id it reads back and puts in the mark is the id of the
\* row it inserted, also when an older Word row has the same normalized
\* headword.
C27_ReadsBackInsertedId ==
    \A i \in Adds :
        (Adds = {i} /\ ops[i].result = "marked") => ops[i].id = ops[i].inserted

\* The last call of a set of calls.
LastOf(S) == CHOOSE i \in S : \A j \in S : j <= i

\* C29: once every request has been answered, the Document row holds the
\* content of the last save whose update succeeded, and the DocumentStats row
\* the word count and the snippet of the content of the last save whose
\* statistics were written: with no failure both are those of the last
\* saveContent call, also when the saves were in progress together.
C29_LastSaveWins ==
    PageQuiet =>
        LET saved == {i \in Saves : ops[i].result = "saved"}
            written == {i \in Saves : ops[i].stats = "written"} IN
        /\ saved # {} => SavedJson = ops[LastOf(saved)].captured
        /\ written # {} =>
            LET plain == ExtractPlainText(ops[LastOf(written)].captured) IN
            /\ StatsOf(OpenDocument) # {}
            /\ \A r \in StatsOf(OpenDocument) :
                /\ r.wordCount = NonWhitespaceRuns(plain)
                /\ r.snippet = SnippetRule(plain)
        /\ (throws = 0 /\ Saves # {}) =>
            /\ LastOf(saved) = LastOf(Saves)
            /\ LastOf(written) = LastOf(Saves)

\* Two saves of different contents were in progress together and all requests
\* are answered: the row and the statistics are those of the second.
C29_Witness ==
    /\ PageQuiet
    /\ \E i, j \in Saves :
        /\ i < j /\ j = LastOf(Saves)
        /\ ops[j].overlaps
        /\ ops[i].stats = "written" /\ ops[j].stats = "written"
        /\ SavedJson = ops[j].captured
        /\ SavedJson # ops[i].captured
        /\ \A r \in StatsOf(OpenDocument) :
            /\ r.wordCount = CountWords(ExtractPlainText(ops[j].captured))
            /\ r.wordCount # CountWords(ExtractPlainText(ops[i].captured))
            /\ r.snippet # ComputeSnippet(ExtractPlainText(ops[i].captured))

\* C30: a save whose update failed does not end with the failure only logged
\* while `content` keeps the value that was not saved: saveContent returns
\* nothing and sets no error state, so a failure that is surfaced would have
\* to leave the call with a result other than the logged error.
C30_FailedSaveSurfaced ==
    \A i \in Saves :
        (ops[i].pc = "returned" /\ ops[i].result = "error") =>
            ~(/\ PageQuiet
              /\ content = ops[i].captured
              /\ SavedJson # content)

\* The completed calls of handleRemoveWord whose save has been applied.
Removed ==
    {i \in 1..Len(ops) :
        /\ ops[i].kind = "removeWord" /\ ops[i].result = "removed"
        /\ ops[ops[i].save].result = "saved"}

\* The places of a content that carry the mark of word v.
MarksOf(c, v) == {p \in 1..Len(c.marks) : c.marks[p] = v}

\* C28: once remove-word for w has completed and its save has been applied and
\* nothing is in progress, w has no override row and no Word row, the saved
\* content has no mark of w, and the cache is empty.
C28_RemovedWordIsGone ==
    PageQuiet =>
        \A i \in Removed :
            /\ OverridesOf(ops[i].id) = {}
            /\ \A w \in dbTables["words"] : w.id # ops[i].id
            /\ MarksOf(SavedJson, ops[i].id) = {}
            /\ cache = <<>>

\* At the moment the save of remove-word is applied the update leaves no
\* mark of w in the saved content and leaves the marks of every other word as
\* they were.
RemoveSaveStep ==
    \A i \in 1..Len(ops) :
        (/\ ops[i].kind = "removeWord" /\ ops[i].result = "removed"
         /\ sqlQueue # <<>>
         /\ Head(sqlQueue).p = ops[i].save
         /\ ops[ops[i].save].pc = "update"
         /\ Len(sqlReplies') = Len(sqlReplies) + 1
         /\ sqlReplies'[Len(sqlReplies')].ok) =>
            LET after == (CHOOSE d \in dbTables'["documents"] : d.id = OpenDocument).contentJson IN
            /\ MarksOf(after, ops[i].id) = {}
            /\ \A v \in WordIds \ {ops[i].id} : MarksOf(after, v) = MarksOf(SavedJson, v)

RemoveSaveKeepsOtherMarks == [][RemoveSaveStep]_vars

\* Every DictionaryEntry row of the state is in the next state as it is.
EntriesKept ==
    \A e \in dbTables["dictionary_entries"] : e \in dbTables'["dictionary_entries"]

\* A lookup of a word whose headword had a DictionaryEntry row when the lookup
\* was called has not fetched.
NoRefetch ==
    \A i \in 1..Len(ops) :
        (ops[i].kind = "lookup" /\ ops[i].hadEntry) => ~ops[i].fetched

\* C25: no step of lookupWord, updateOverrides, clearCache, remove-word or
\* deleteDocument changes or deletes a DictionaryEntry row, and no lookup called
\* when the entry of its word's headword exists fetches from the dictionary.
C25_EntriesArePermanent == []NoRefetch /\ [][EntriesKept]_vars

\* A lookup fetched and inserted the entry; a word with that headword was then
\* removed; a later lookup of the other word with the headword read the entry
\* from the table without a fetch.
C25_Witness ==
    \E k, i, j \in 1..Len(ops) :
        /\ k < i /\ i < j
        /\ ops[k].kind = "lookup" /\ ops[k].fetched /\ ops[k].result = "data"
        /\ ops[k].dictEntry # NoEntry
        /\ ops[i].kind = "removeWord" /\ ops[i].result = "removed"
        /\ ops[j].kind = "lookup" /\ ops[j].hadEntry /\ ~ops[j].hit
        /\ ops[j].result = "data" /\ ~ops[j].fetched
        /\ ops[j].dictEntry \in dbTables["dictionary_entries"]
        /\ Len(fetchLog) = 1

\* The document was deleted with its words and the entry is still there.
EntryOutlivesDocument ==
    /\ dbTables["dictionary_entries"] # {}
    /\ dbTables["words"] = {}
    /\ \E i \in 1..Len(ops) : ops[i].kind = "delete" /\ ops[i].result = "deleted"

\* The initialization attempt of the Bridge has failed: the promise initSqlite
\* returns was rejected.
InitFailed == initPromise # 0 /\ calls[initPromise].state = "rejected"

\* An initSqlite() call made after the attempt failed starts a new attempt: a
\* new promise and a new `init` request.
RetryStep ==
    (InitFailed /\ Len(initCallers') = Len(initCallers) + 1) =>
        /\ initPromise' # initPromise
        /\ Len(issued') = Len(issued) + 1
        /\ inbox' # <<>> /\ inbox'[Len(inbox')].type = "init"

\* C31: after the `init` request was rejected, reinitialize (initSqlite called
\* again by useDb) starts a new initialization attempt that sends a new `init`
\* request.
C31_RetryStartsNewAttempt == [][RetryStep]_vars

(***************************************************************************)
(* The tooltip over the dictionary hook: hovering words of the editor and  *)
(* closing the tooltip while the lookups go on.                            *)
(***************************************************************************)
HoverSpecNext ==
    \/ HandleMouseOver
    \/ CloseTooltip
    \/ SqlStatement
    \/ FetchDone
    \/ LookupWordResume

HoverSpec == LookupSpecInit /\ [][HoverSpecNext]_vars

\* C32: a hover lookup never acts on a stale result: whenever the tooltip
\* shows word data while a word is hovered, the data are those of the
\* hovered word, also when the pointer moved to another word while the
\* lookup of the first was in flight.
C32_TooltipShowsHoveredWord ==
    (hoveredWordId # 0 /\ tooltipData # <<>>) =>
        tooltipData[1].wordId = hoveredWordId

\* The step form of C32: a step that puts word data into the tooltip puts
\* the data of the word hovered after the step.
HoverResultStep ==
    (tooltipData' # tooltipData /\ tooltipData' # <<>> /\ hoveredWordId' # 0) =>
        tooltipData'[1].wordId = hoveredWordId'

HoverResultIsCurrent == [][HoverResultStep]_vars

\* Call n waits for a response that cannot arrive: its request was posted to
\* a worker that closeDatabase terminated since, and no response to it is
\* queued on the main side.
Orphaned(n) ==
    /\ calls[n].state = "pending"
    /\ calls[n].id # 0
    /\ calls[n].epoch < epoch
    /\ \A i \in 1..Len(outbox) : outbox[i].id # calls[n].id

StaysInPendingMap ==
    \A n \in DOMAIN calls :
        Orphaned(n) => /\ calls[n].id \in DOMAIN pendingRequests
                       /\ pendingRequests[calls[n].id] = n

StaysSuspended == \A n \in DOMAIN calls : Orphaned(n) => Orphaned(n)'

\* C33: a request whose response never arrives (closeDatabase terminated the
\* worker while it was in flight) is never resolved or rejected: its entry
\* stays in the pending map and its call stays pending in every later state,
\* also after a new initSqlite.
C33_NeverSettled == []StaysInPendingMap /\ [][StaysSuspended]_vars

\* A call is orphaned while a worker created after its loss has answered
\* its `init`.
C33_Witness ==
    \E n \in DOMAIN calls :
        /\ Orphaned(n)
        /\ worker # 0 /\ workerEpochs[worker] > calls[n].epoch
        /\ InitResolved /\ initPromise > n

\* C34: when the durable backend is available, a successful import leaves the
\* active handle on the durable backend, holding exactly the tables and rows
\* of the imported buffer and nothing of the database before the import, also
\* when the durable file already held the application's tables: for every
\* import of a database image that waits for the OPFS pool, the branch
\* importDatabase takes when the pool is there does not throw and leaves the
\* durable file equal to the image.
C34_ImportLandsOnDurable ==
    \A k \in inflight :
        (k.type = "import" /\ k.stage = "vfs" /\ k.data.valid) =>
            LET d == ImportDurable(durable, k.data, TRUE) IN
            ~d.thrown /\ d.c = Deserialize(k.data)

\* Lookups i and j of two wordIds with one normalized headword both found no
\* DictionaryEntry and both got an entry from the remote dictionary; both have
\* returned, and no statement threw for a reason other than the UNIQUE index.
ConcurrentPair(i, j) ==
    /\ ops[i].kind = "lookup" /\ ops[j].kind = "lookup"
    /\ ops[i].id # ops[j].id
    /\ ops[i].fetched /\ ops[j].fetched
    /\ ops[i].dictEntry # NoEntry /\ ops[j].dictEntry # NoEntry
    /\ ops[i].word.headwordNorm = ops[j].word.headwordNorm
    /\ ops[i].pc = "returned" /\ ops[j].pc = "returned"
    /\ throws = 0

\* C35: concurrent lookups of two wordIds that share a normalized headword
\* with no DictionaryEntry both return a resolved merged view with the fetched
\* dictionary data; neither returns null because the other inserted the entry
\* first.
C35_BothLookupsReturnData ==
    \A i, j \in DOMAIN ops :
        ConcurrentPair(i, j) =>
            /\ ops[i].result = "data"
            /\ ~ops[i].data.isLoading
            /\ ops[i].data.definition = OrNull(ops[i].dictEntry.definition)

(***************************************************************************)
(* Saving overrides and content while words are removed and the document  *)
(* is deleted: the calls overlap.                                          *)
(***************************************************************************)
MayOverlap == Len(ops) < MaxEntryOps /\ InFlight < MaxInFlight

OverrideSpecNext ==
    \/ MayOverlap /\ UpdateOverrides
    \/ MayOverlap /\ HandleRemoveWord
    \/ MayOverlap /\ DeleteDocument
    \/ MayOverlap /\ EditorOnUpdate
    \/ SqlStatement
    \/ FetchDone
    \/ LookupWordResume
    \/ UpdateOverridesResume
    \/ RemoveWordResume
    \/ SaveContentResume
    \/ DeleteDocumentResume

OverrideSpec == LookupSpecInit /\ [][OverrideSpecNext]_vars

\* C36: in every reachable state every WordOverride row has the wordId of an
\* existing Word row, also when updateOverrides runs or completes after the
\* word was removed or its document was deleted.
C36_OverrideHasWord ==
    \A o \in dbTables["word_overrides"] :
        \E w \in dbTables["words"] : w.id = o.wordId

\* C37: in every reachable state every DocumentStats row has the documentId
\* of an existing Document row, also when deleteDocument runs while the
\* statistics recomputation of an earlier saveContent of the document is in
\* flight.
C37_StatsHaveDocument ==
    \A s \in dbTables["document_stats"] :
        \E d \in dbTables["documents"] : d.id = s.documentId

\* The statistics row an orphan is made of was written by a save that was
\* called after the deleteDocument call that deleted the document.
OrphanStatsFromLaterSave ==
    ~C37_StatsHaveDocument =>
        \E i, j \in DOMAIN ops :
            /\ ops[i].kind = "delete" /\ ops[j].kind = "saveContent" /\ i < j

\* C38: deleteDocument is all-or-nothing: when one of its steps fails it
\* returns null and the Document row, its Word rows, their WordOverride rows
\* and its DocumentStats row are present as before the call.  Stated for a
\* call that no other deleteDocument of the same document accompanies: the
\* tables that hold rows of the document when it has returned null are those
\* that held them when it was called.
C38_DeleteAllOrNothing ==
    \A p \in 1..Len(ops) :
        (/\ ops[p].kind = "delete"
         /\ ops[p].result = "null"
         /\ \A q \in 1..Len(ops) \ {p} :
                ~(ops[q].kind = "delete" /\ ops[q].id = ops[p].id))
            => ops[p].left = ops[p].had

(***************************************************************************)
(* Deleting the open document and undoing the deletion, with words removed *)
(* before or after.                                                        *)
(***************************************************************************)
UndoSpecNext ==
    \/ NoCallInProgress /\ DeleteDocument
    \/ NoCallInProgress /\ RestoreDocument
    \/ NoCallInProgress /\ HandleRemoveWord
    \/ SqlStatement
    \/ DeleteDocumentResume
    \/ RestoreDocumentResume
    \/ RemoveWordResume
    \/ SaveContentResume

UndoSpec == LookupSpecInit /\ [][UndoSpecNext]_vars

\* No call is in progress and no statement or response is under way.
NoActionInProgress ==
    /\ sqlQueue = <<>> /\ sqlReplies = <<>>
    /\ \A i \in 1..Len(ops) : ops[i].pc = "returned"

\* C39: in every state with no action in progress, every vocab mark in a
\* Document's persisted content carries the id of an existing Word row owned
\* by that document, also after deleteDocument followed by restoreDocument.
\* Stated for the runs in which no statement throws.
C39_MarksHaveWords ==
    (NoActionInProgress /\ throws = 0) =>
        \A d \in dbTables["documents"] :
            \A i \in 1..Len(d.contentJson.marks) :
                d.contentJson.marks[i] # 0 =>
                    \E w \in dbTables["words"] :
                        w.id = d.contentJson.marks[i] /\ w.documentId = d.id

(***************************************************************************)
(* Lookups under the scheduling of the browser: the Host executes every    *)
(* statement posted, the main thread handles every response, and every     *)
(* fetch settles.  Calls by the user are not forced.                       *)
(***************************************************************************)
FairLookupNext ==
    \/ LookupWord
    \/ SqlStatement
    \/ FetchDone
    \/ LookupWordResume

FairLookupSpec ==
    /\ LookupSpecInit
    /\ [][FairLookupNext]_vars
    /\ WF_vars(SqlStatement)
    /\ WF_vars(FetchDone)
    /\ WF_vars(LookupWordResume)

\* The cache holds the loading value for wordId.
Loading(wordId) == wordId \in DOMAIN cache /\ cache[wordId].isLoading

\* C40: a cache entry in the loading state is eventually replaced by a
\* resolved record or removed once the lookup that published it finishes,
\* also when that lookup finds no Word row or fails: no wordId stays in the
\* loading state forever.
C40_LoadingEnds == \A wordId \in LookupIds : Loading(wordId) ~> ~Loading(wordId)

====
